---- MODULE Spec2Model ----
(***************************************************************************)
(* Model of the pico-bike-trainer control core: the interrupt-counted      *)
(* motor position sensor (Class_MotorSensor.py), the L298N resistance       *)
(* controller (Class_LoadController.py), the gear selector                  *)
(* (Class_GearSelector.py) and the FTMS control-point dispatcher            *)
(* (Class_BLEController.py).                                                *)
(*                                                                          *)
(* Fixed-point conventions.  The Python code computes with floats; the      *)
(* model computes the same expressions with exact integers:                 *)
(*   - an incline/target percentage is held in hundredths of a percent      *)
(*     (5.0 % is 500), so int16/10.0 is raw*10 and grade/100.0 is grade;    *)
(*   - a load percentage is held as a fraction of LoadDen, the common       *)
(*     denominator of every base load and incline load.                     *)
(***************************************************************************)
EXTENDS Integers, Sequences, FiniteSets, TLC

VARIABLES
    \* ---- MotorSensor fields ----
    motor_pulse_count,        \* rotation pulses, signed by direction
    motor_crank_position,     \* tracked position, ticks
    motor_direction,          \* +1 forward, -1 reverse
    motor_crank_pulse_count,  \* home-trigger pulses
    stop_irq_enabled,         \* a handler is registered on motor_stop_pin
    motor_stop_pin,           \* level of the home (stop) pin, 0 or 1
    \* ---- LoadController fields ----
    l298n_in1_pin,
    l298n_in2_pin,
    current_direction,        \* "none", "forward", "reverse"
    incline_percent,          \* hundredths of a percent
    motor_is_running,
    total_load,               \* last total_load computed by _update_load, percent
    \* ---- GearSelector fields ----
    current_gear,
    \* ---- execution contexts ----
    frame,                    \* per context: where it is in _update_load / the seek
    seek_note,                \* outcome of the latest seek, for the idempotence claims
    calibration,              \* startup_calibration: "not_run", "running", "synced", "failed"
    debounce_count,           \* debounce_count of the running homing loop
    initial_stop_state,       \* the home pin as read when the calibration began
    \* ---- BLEController fields ----
    connected,
    conn_handle,
    control_granted,
    target_incline,           \* hundredths of a percent
    target_resistance,        \* raw sint16, 0.1 units
    target_power,             \* watts
    sim,                      \* sim_wind_speed, sim_grade, sim_crr, sim_cw
    pairing_mode,
    pairing_mode_start_time,  \* ms
    advertised_name,          \* name of the latest gap_advertise: "normal", "pairing"
    advertising,              \* the radio is advertising
    cp_value,                 \* the latest write to the control point
    tx,                       \* GATT calls made for the latest control-point write
    \* ---- BLEController telemetry ----
    now,                      \* utime.ticks_ms()
    wheel_revolutions,
    crank_revolutions,
    last_wheel_event_time,    \* 1/1024 s, 16 bits
    last_crank_event_time,    \* 1/1024 s, 16 bits
    last_update_time,         \* ms
    csc_run,                  \* the run of equally spaced CSC ticks at one rpm so far
    bx,                       \* GATT calls made by the latest broadcast call
    ibd_readings              \* readings the latest Indoor Bike Data frame was built from

sensorVars == <<motor_pulse_count, motor_crank_position, motor_direction,
                motor_crank_pulse_count, stop_irq_enabled, motor_stop_pin>>
pinVars == <<l298n_in1_pin, l298n_in2_pin, current_direction>>
loadVars == <<incline_percent, motor_is_running, total_load>>

calVars == <<calibration, debounce_count, initial_stop_state>>
ctxVars == <<frame, seek_note, calVars>>
\* everything the bench harness and the sensor inputs leave alone
connVars == <<connected, conn_handle, control_granted, pairing_mode,
              pairing_mode_start_time, advertised_name, advertising>>
targetVars == <<target_incline, target_resistance, target_power, sim>>
cscVars == <<wheel_revolutions, crank_revolutions, last_wheel_event_time,
             last_crank_event_time, last_update_time, csc_run>>
dataVars == <<now, cscVars, bx, ibd_readings>>
bleVars == <<connVars, targetVars, cp_value, tx, dataVars>>
restVars == <<loadVars, current_gear, ctxVars, bleVars>>

vars == <<sensorVars, pinVars, loadVars, current_gear, ctxVars, bleVars>>

----------------------------------------------------------------------------
(* Bounds of the exploration (not program constants).                      *)

\* bench runs: rotation pulses are explored while |motor_pulse_count| stays
\* within this cap (reset_count() re-opens the window)
MaxPulseCount == 2
\* home-trigger pulses are explored up to this count
MaxCrankPulseCount == 2
\* in controller runs the rotation count is explored up to this magnitude
MaxSeekPulseCount == 501
\* telemetry runs: the clock is explored up to this many milliseconds
MaxClock == 3000
\* pairing runs: the clock is explored up to this many milliseconds
MaxPairingClock == 180000

----------------------------------------------------------------------------
(* Program constants.                                                      *)

motor_rotations_per_motor_crank == 1000
max_load_position == motor_rotations_per_motor_crank \div 2

Abs(x) == IF x < 0 THEN -x ELSE x
Min(a, b) == IF a < b THEN a ELSE b
Max(a, b) == IF a > b THEN a ELSE b

----------------------------------------------------------------------------
(* MotorSensor                                                             *)

\* the position written by one rotation pulse when clamping is left out
UnclampedPulsePosition(pos, dir) ==
    LET p == pos + dir
    IN  IF dir = 1 /\ p >= motor_rotations_per_motor_crank THEN 0 ELSE p

\* a position that wraps to 0 once it passes the forward end of the travel
PulsePositionWrapsAtMax(pos, dir) ==
    LET p == pos + dir
    IN  IF dir = 1
        THEN IF p > max_load_position THEN 0 ELSE p
        ELSE IF p < -max_load_position THEN -max_load_position
             ELSE p

\* _motor_pulse_handler, position part: add the direction, then
\* forward: wrap to 0 at 1000, else clamp to +500; reverse: clamp to -500
PulsePosition(pos, dir) ==
    LET p == pos + dir
    IN  IF dir = 1
        THEN IF p >= motor_rotations_per_motor_crank THEN 0
             ELSE IF p > max_load_position THEN max_load_position
             ELSE p
        ELSE IF p < -max_load_position THEN -max_load_position
             ELSE p

\* _motor_pulse_handler: rotation-pulse ISR
MotorPulseHandler ==
    /\ motor_pulse_count' = motor_pulse_count + motor_direction
    /\ motor_crank_position' = PulsePosition(motor_crank_position, motor_direction)
    /\ UNCHANGED <<motor_direction, motor_crank_pulse_count, stop_irq_enabled,
                   motor_stop_pin>>

\* a home-trigger ISR that also clears the rotation count
MotorCrankPulseHandlerClearsCount ==
    /\ motor_crank_pulse_count' = motor_crank_pulse_count + 1
    /\ motor_crank_position' = 0
    /\ motor_pulse_count' = 0
    /\ UNCHANGED <<motor_direction, stop_irq_enabled>>

\* _motor_crank_pulse_handler: home-trigger ISR
MotorCrankPulseHandler ==
    /\ motor_crank_pulse_count' = motor_crank_pulse_count + 1
    /\ motor_crank_position' = 0
    /\ UNCHANGED <<motor_pulse_count, motor_direction, stop_irq_enabled>>

is_motor_crank_at_bottom == motor_stop_pin = 1

\* sync_position_to_sensor
SyncPositionToSensor ==
    /\ motor_crank_position' =
          IF is_motor_crank_at_bottom THEN 0 ELSE motor_crank_position
    /\ UNCHANGED <<motor_pulse_count, motor_direction, motor_crank_pulse_count,
                   stop_irq_enabled, motor_stop_pin>>

\* reset_count
ResetCount ==
    /\ motor_pulse_count' = 0
    /\ UNCHANGED <<motor_crank_position, motor_direction,
                   motor_crank_pulse_count, stop_irq_enabled, motor_stop_pin>>

\* reset_motor_crank_count
ResetMotorCrankCount ==
    /\ motor_crank_pulse_count' = 0
    /\ UNCHANGED <<motor_pulse_count, motor_crank_position, motor_direction,
                   stop_irq_enabled, motor_stop_pin>>

\* disable_stop_interrupt
DisableStopInterrupt ==
    /\ stop_irq_enabled' = FALSE
    /\ UNCHANGED <<motor_pulse_count, motor_crank_position, motor_direction,
                   motor_crank_pulse_count, motor_stop_pin>>

\* enable_stop_interrupt
EnableStopInterrupt ==
    /\ stop_irq_enabled' = TRUE
    /\ UNCHANGED <<motor_pulse_count, motor_crank_position, motor_direction,
                   motor_crank_pulse_count, motor_stop_pin>>

----------------------------------------------------------------------------
(* LoadController: actuator primitives                                     *)

\* set_motor_direction_forward: IN1 high, IN2 low, sensor counts up
SetMotorDirectionForward ==
    /\ l298n_in1_pin' = 1
    /\ l298n_in2_pin' = 0
    /\ current_direction' = "forward"
    /\ motor_direction' = 1

\* set_motor_direction_reverse: IN1 low, IN2 high, sensor counts down
SetMotorDirectionReverse ==
    /\ l298n_in1_pin' = 0
    /\ l298n_in2_pin' = 1
    /\ current_direction' = "reverse"
    /\ motor_direction' = -1

\* stop_motor: both pins low
StopMotor ==
    /\ l298n_in1_pin' = 0
    /\ l298n_in2_pin' = 0
    /\ current_direction' = "none"

Energized == l298n_in1_pin = 1 \/ l298n_in2_pin = 1

----------------------------------------------------------------------------
(* GearSelector and the load computation of LoadController                 *)

num_gears == 7
\* min_ratio = 1.0 and max_ratio = 4.5, in tenths
min_ratio == 10
max_ratio == 45

Gears == 1..num_gears

\* gear_ratios[g] = min_ratio + ratio_step * (g - 1), as a numerator over
\* RatioDen = 10 * (num_gears - 1)
RatioDen == 10 * (num_gears - 1)
GearRatio(g) == min_ratio * (num_gears - 1) + (max_ratio - min_ratio) * (g - 1)

\* normalized_ratio = (current_ratio - min_ratio) / (max_ratio - min_ratio),
\* as the numerator NormNum(g) over NormDen (0 if max_ratio <= min_ratio)
NormDen == IF max_ratio > min_ratio THEN (max_ratio - min_ratio) * (num_gears - 1) ELSE 1
NormNum(g) ==
    IF max_ratio > min_ratio THEN GearRatio(g) - min_ratio * (num_gears - 1) ELSE 0

\* loads are numerators over LoadDen
LoadDen == 400 * NormDen

\* _calculate_base_load with base_load_factor = 1: 50 + normalized_ratio * 25
CalculateBaseLoad(g) == 400 * (50 * NormDen + 25 * NormNum(g))

\* _calculate_incline_load: (incline_percent / 100) * 25; incl is in hundredths
CalculateInclineLoad(incl) == incl * NormDen

\* Python round(): nearest integer of n/d, ties to even (n >= 0, d > 0)
Round(n, d) ==
    LET f == n \div d
        r == n % d
    IN  IF 2 * r < d THEN f
        ELSE IF 2 * r > d THEN f + 1
        ELSE IF f % 2 = 0 THEN f ELSE f + 1

\* a quantization that rounds to whole percents instead of to 5 % steps
QuantizeToOne(n) == Round(n, LoadDen)

\* round(total_load / 5.0) * 5.0
Quantize(n) == Round(n, 5 * LoadDen) * 5

\* _update_load lines 496-507: base + incline, clamped to [0, 100], quantized;
\* the result is in whole percent
TotalLoad(g, incl) ==
    LET sum == CalculateBaseLoad(g) + CalculateInclineLoad(incl)
        clamped == Max(0, Min(100 * LoadDen, sum))
    IN  Quantize(clamped)

\* a set_incline that stores its argument as given
ClampInclineNone(v) == v

\* set_incline: max(-100.0, min(100.0, incline_percent)), in hundredths
ClampIncline(v) == Max(-10000, Min(10000, v))

----------------------------------------------------------------------------
(* LoadController._update_load and _move_motor_to_position, run by the     *)
(* main loop ("main") or inside the BLE event handler ("irq").  A call     *)
(* first computes its target from the position it reads (lines 496-558),   *)
(* then decides (line 562, 432-440), then polls until the seek ends.       *)

Contexts == {"main", "irq"}

IdleFrame == [pc |-> "idle", target |-> 0, forward |-> FALSE, far |-> FALSE,
              expired |-> FALSE]

NoNote == [outcome |-> "none", incline |-> 0, gear |-> 0]

\* the handler of a BLE event runs to completion before the main loop resumes
MainMayRun == frame["irq"].pc = "idle"
MayRun(c) == c = "irq" \/ MainMayRun

\* lines 515-517: target_position_abs = int((total_load / 100 * 180) / 180 * 500)
TargetPositionAbs(load) == (load * max_load_position) \div 100

\* lines 524-528: is_increasing_load = total_load > min(100, |pos| / 500 * 100)
IsIncreasingLoad(load, pos) ==
    LET current_abs == Abs(pos)
    IN  load * max_load_position > Min(100 * max_load_position, current_abs * 100)

\* a target that stays on the side of the crank's current position
TargetPositionCurrentSide(load, pos) ==
    IF pos < 0 THEN -TargetPositionAbs(load) ELSE TargetPositionAbs(load)

\* lines 534-549: +target_abs when the load increases, -target_abs otherwise
TargetPosition(load, pos) ==
    IF IsIncreasingLoad(load, pos)
    THEN TargetPositionAbs(load)
    ELSE -TargetPositionAbs(load)

\* the seek tolerance of lines 454 and 562
position_tolerance == 5

\* lines 496-558 for the position read at line 520
ComputedFrame(load, pos) ==
    LET target == TargetPosition(load, pos)
    IN  [pc |-> "decide",
         target |-> target,
         forward |-> target > pos,
         far |-> Abs(target - pos) > position_tolerance,
         expired |-> FALSE]

\* _update_load, first half: compute the load and the target
UpdateLoadCompute(c, g, incl) ==
    /\ total_load' = TotalLoad(g, incl)
    /\ frame' = [frame EXCEPT
                   ![c] = ComputedFrame(TotalLoad(g, incl), motor_crank_position)]

\* a decision that ignores the running flag
StartsSeekIgnoringFlag(c) == frame[c].far

\* line 562 and line 432: move only if far from the target and not running
StartsSeek(c) == frame[c].far /\ ~motor_is_running

\* _update_load, second half: start the seek (lines 435-440), or stop the
\* motor if none is running (lines 567-568), or do nothing
UpdateLoadDecide(c) ==
    /\ frame[c].pc = "decide"
    /\ IF StartsSeek(c)
       THEN /\ motor_is_running' = TRUE
            /\ IF frame[c].forward
               THEN SetMotorDirectionForward
               ELSE SetMotorDirectionReverse
            /\ frame' = [frame EXCEPT ![c].pc = "seek"]
            /\ seek_note' = NoNote
       ELSE /\ IF ~motor_is_running
               THEN StopMotor
               ELSE UNCHANGED pinVars
            /\ frame' = [frame EXCEPT ![c] = IdleFrame]
            /\ UNCHANGED <<motor_is_running, motor_direction, seek_note>>

\* the seek loop's exit test, lines 448-455
SeekConverged(c) ==
    Abs(frame[c].target - motor_crank_position) <= position_tolerance
SeekExits(c) == frame[c].expired \/ SeekConverged(c)

\* the end of a seek that leaves the pins as they are
SeekEndKeepsPins(c) ==
    /\ UNCHANGED pinVars
    /\ motor_is_running' = FALSE

\* lines 458-459: stop_motor(), motor_is_running = False
SeekEnd(c) ==
    /\ StopMotor
    /\ motor_is_running' = FALSE

\* one poll of the seek loop that leaves it
SeekPollExit(c) ==
    /\ frame[c].pc = "seek"
    /\ SeekExits(c)
    /\ SeekEnd(c)
    /\ frame' = [frame EXCEPT ![c] = IdleFrame]
    /\ seek_note' = [outcome |-> IF frame[c].expired THEN "timeout" ELSE "converged",
                     incline |-> incline_percent,
                     gear |-> current_gear]

\* the 30 s of line 443 run out while the loop sleeps
SeekTimeoutElapses(c) ==
    /\ frame[c].pc = "seek"
    /\ ~frame[c].expired
    /\ frame' = [frame EXCEPT ![c].expired = TRUE]
    /\ UNCHANGED <<sensorVars, pinVars, loadVars, current_gear, seek_note, calVars, bleVars>>

----------------------------------------------------------------------------
(* Environment: the two sensor inputs                                      *)

\* a rising edge on the rotation pin runs the rotation ISR
RotationPulse ==
    /\ MotorPulseHandler
    /\ UNCHANGED <<pinVars, restVars>>

\* a rising edge on the home pin that runs the ISR whether or not a handler
\* is registered
StopPinRisesUnmasked ==
    /\ motor_stop_pin = 0
    /\ motor_stop_pin' = 1
    /\ motor_crank_pulse_count < MaxCrankPulseCount
    /\ MotorCrankPulseHandler
    /\ UNCHANGED <<pinVars, restVars>>

\* a rising edge on the home pin; the ISR runs if a handler is registered
StopPinRises ==
    /\ motor_stop_pin = 0
    /\ motor_stop_pin' = 1
    /\ IF stop_irq_enabled
       THEN /\ motor_crank_pulse_count < MaxCrankPulseCount
            /\ MotorCrankPulseHandler
       ELSE UNCHANGED <<motor_pulse_count, motor_crank_position,
                        motor_direction, motor_crank_pulse_count,
                        stop_irq_enabled>>
    /\ UNCHANGED <<pinVars, restVars>>

StopPinFalls ==
    /\ motor_stop_pin = 1
    /\ motor_stop_pin' = 0
    /\ UNCHANGED <<motor_pulse_count, motor_crank_position, motor_direction,
                   motor_crank_pulse_count, stop_irq_enabled>>
    /\ UNCHANGED <<pinVars, restVars>>

----------------------------------------------------------------------------
(* The main loop's calls into the LoadController                           *)

MainIdle == MainMayRun /\ frame["main"].pc = "idle"

\* apply_load()
ApplyLoad ==
    /\ MainIdle
    /\ UpdateLoadCompute("main", current_gear, incline_percent)
    /\ UNCHANGED <<sensorVars, pinVars, incline_percent, motor_is_running,
                   current_gear, seek_note, calVars, bleVars>>

\* set_incline(v): clamp, store, _update_load()
SetIncline(v) ==
    /\ MainIdle
    /\ incline_percent' = ClampIncline(v)
    /\ UpdateLoadCompute("main", current_gear, ClampIncline(v))
    /\ UNCHANGED <<sensorVars, pinVars, motor_is_running, current_gear, seek_note,
                   calVars, bleVars>>

\* increment_gear() succeeded, then apply_load()
IncrementGear ==
    /\ MainIdle
    /\ current_gear < num_gears
    /\ current_gear' = current_gear + 1
    /\ UpdateLoadCompute("main", current_gear + 1, incline_percent)
    /\ UNCHANGED <<sensorVars, pinVars, incline_percent, motor_is_running, seek_note,
                   calVars, bleVars>>

\* decrement_gear() succeeded, then apply_load()
DecrementGear ==
    /\ MainIdle
    /\ current_gear > 1
    /\ current_gear' = current_gear - 1
    /\ UpdateLoadCompute("main", current_gear - 1, incline_percent)
    /\ UNCHANGED <<sensorVars, pinVars, incline_percent, motor_is_running, seek_note,
                   calVars, bleVars>>

\* the main loop's call reaches line 562
MainDecide ==
    /\ MainMayRun
    /\ UpdateLoadDecide("main")
    /\ UNCHANGED <<motor_pulse_count, motor_crank_position,
                   motor_crank_pulse_count, stop_irq_enabled, motor_stop_pin>>
    /\ UNCHANGED <<incline_percent, total_load, current_gear, calVars, bleVars>>

\* the main loop's seek leaves its polling loop
MainSeekExit ==
    /\ MainMayRun
    /\ SeekPollExit("main")
    /\ UNCHANGED <<sensorVars, incline_percent, total_load, current_gear, calVars,
                   bleVars>>

\* remove_load(): _run_motor_timed(False, 500) up to its sleep, lines 470-481
RemoveLoad ==
    /\ MainIdle
    /\ IF motor_is_running
       THEN UNCHANGED <<pinVars, motor_direction, motor_is_running, frame>>
       ELSE /\ motor_is_running' = TRUE
            /\ SetMotorDirectionReverse
            /\ frame' = [frame EXCEPT !["main"].pc = "timed"]
    /\ UNCHANGED <<motor_pulse_count, motor_crank_position,
                   motor_crank_pulse_count, stop_irq_enabled, motor_stop_pin>>
    /\ UNCHANGED <<incline_percent, total_load, current_gear, seek_note, calVars,
                   bleVars>>

\* _run_motor_timed after its sleep, lines 483-484
RunMotorTimedEnd ==
    /\ MainMayRun
    /\ frame["main"].pc = "timed"
    /\ StopMotor
    /\ motor_is_running' = FALSE
    /\ frame' = [frame EXCEPT !["main"] = IdleFrame]
    /\ UNCHANGED <<sensorVars, incline_percent, total_load, current_gear, seek_note,
                   calVars, bleVars>>

\* the actuator turns only while a direction pin is high; the rotation
\* sensor may or may not report it
ActuatorPulse ==
    /\ Energized
    /\ Abs(motor_pulse_count + motor_direction) <= MaxSeekPulseCount
    /\ RotationPulse

----------------------------------------------------------------------------
(* LoadController.startup_calibration, run by the main loop                *)

required_readings == 10

\* lines 153-182 / 241-255: mask the home interrupt, read the home pin, and
\* start the first phase: Reverse if at home, Forward otherwise
CalibrationBegin ==
    /\ MainIdle
    /\ calibration = "not_run"
    /\ calibration' = "running"
    /\ stop_irq_enabled' = FALSE
    /\ debounce_count' = 0
    /\ initial_stop_state' = (motor_stop_pin = 1)
    /\ IF initial_stop_state'
       THEN /\ SetMotorDirectionReverse
            /\ frame' = [frame EXCEPT !["main"].pc = "cal_off"]
       ELSE /\ SetMotorDirectionForward
            /\ frame' = [frame EXCEPT !["main"].pc = "cal_seek"]
    /\ UNCHANGED <<motor_pulse_count, motor_crank_position,
                   motor_crank_pulse_count, motor_stop_pin>>
    /\ UNCHANGED <<loadVars, current_gear, seek_note, bleVars>>

\* a timed-out phase that returns with the direction pins as they are
CalibrationTimeoutReturnKeepsPins ==
    /\ UNCHANGED pinVars
    /\ stop_irq_enabled' = TRUE
    /\ calibration' = "failed"
    /\ debounce_count' = 0
    /\ UNCHANGED initial_stop_state
    /\ frame' = [frame EXCEPT !["main"] = IdleFrame]
    /\ UNCHANGED <<motor_pulse_count, motor_crank_position, motor_direction,
                   motor_crank_pulse_count, motor_stop_pin>>

\* a timed-out phase that returns with the home interrupt still masked
CalibrationTimeoutReturnIrqMasked ==
    /\ StopMotor
    /\ stop_irq_enabled' = FALSE
    /\ calibration' = "failed"
    /\ debounce_count' = 0
    /\ UNCHANGED initial_stop_state
    /\ frame' = [frame EXCEPT !["main"] = IdleFrame]
    /\ UNCHANGED <<motor_pulse_count, motor_crank_position, motor_direction,
                   motor_crank_pulse_count, motor_stop_pin>>

\* lines 197-208 and 259-272: a phase timed out: stop, re-enable, return
CalibrationTimeoutReturn ==
    /\ StopMotor
    /\ stop_irq_enabled' = TRUE
    /\ calibration' = "failed"
    /\ debounce_count' = 0
    /\ UNCHANGED initial_stop_state
    /\ frame' = [frame EXCEPT !["main"] = IdleFrame]
    /\ UNCHANGED <<motor_pulse_count, motor_crank_position, motor_direction,
                   motor_crank_pulse_count, motor_stop_pin>>

\* a debounce counter that an unwanted sample only takes one step back
DebouncedStepsBack(count, pin, wanted) ==
    IF pin = wanted THEN count + 1 ELSE IF count > 0 THEN count - 1 ELSE 0

\* the debounce counter after one sample of the home pin
Debounced(count, pin, wanted) == IF pin = wanted THEN count + 1 ELSE 0

\* one iteration of the move-off-home loop, lines 195-228
CalibrationOffPoll ==
    /\ MainMayRun
    /\ frame["main"].pc = "cal_off"
    /\ IF frame["main"].expired
       THEN CalibrationTimeoutReturn
       ELSE /\ debounce_count' = Debounced(debounce_count, motor_stop_pin, 0)
            /\ frame' = [frame EXCEPT !["main"].pc =
                           IF Debounced(debounce_count, motor_stop_pin, 0)
                                < required_readings
                           THEN "cal_off" ELSE "cal_settle"]
            /\ UNCHANGED <<sensorVars, pinVars, calibration, initial_stop_state>>
    /\ UNCHANGED <<loadVars, current_gear, seek_note, bleVars>>

\* lines 232-233: after 2 more seconds of Reverse, stop the motor
CalibrationSettleStop ==
    /\ MainMayRun
    /\ frame["main"].pc = "cal_settle"
    /\ StopMotor
    /\ frame' = [frame EXCEPT !["main"].pc = "cal_reset"]
    /\ UNCHANGED <<sensorVars, calVars>>
    /\ UNCHANGED <<loadVars, current_gear, seek_note, bleVars>>

\* lines 237-255: reset the counters and start the Forward phase
CalibrationResetAndSeek ==
    /\ MainMayRun
    /\ frame["main"].pc = "cal_reset"
    /\ motor_pulse_count' = 0
    /\ motor_crank_position' = 0
    /\ SetMotorDirectionForward
    /\ debounce_count' = 0
    /\ frame' = [frame EXCEPT !["main"] = [IdleFrame EXCEPT !.pc = "cal_seek"]]
    /\ UNCHANGED <<motor_crank_pulse_count, stop_irq_enabled, motor_stop_pin,
                   calibration, initial_stop_state>>
    /\ UNCHANGED <<loadVars, current_gear, seek_note, bleVars>>

\* one iteration of the seek-home loop, lines 257-292
CalibrationSeekPoll ==
    /\ MainMayRun
    /\ frame["main"].pc = "cal_seek"
    /\ IF frame["main"].expired
       THEN CalibrationTimeoutReturn
       ELSE /\ debounce_count' = Debounced(debounce_count, motor_stop_pin, 1)
            /\ frame' = [frame EXCEPT !["main"].pc =
                           IF Debounced(debounce_count, motor_stop_pin, 1)
                                < required_readings
                           THEN "cal_seek" ELSE "cal_found"]
            /\ UNCHANGED <<sensorVars, pinVars, calibration, initial_stop_state>>
    /\ UNCHANGED <<loadVars, current_gear, seek_note, bleVars>>

\* line 302: stop the motor at the start of the home pulse
CalibrationFoundStop ==
    /\ MainMayRun
    /\ frame["main"].pc = "cal_found"
    /\ StopMotor
    /\ frame' = [frame EXCEPT !["main"].pc = "cal_sync"]
    /\ UNCHANGED <<sensorVars, calVars>>
    /\ UNCHANGED <<loadVars, current_gear, seek_note, bleVars>>

\* lines 306-309: sync_position_to_sensor(), enable_stop_interrupt(), return
CalibrationSync ==
    /\ MainMayRun
    /\ frame["main"].pc = "cal_sync"
    /\ motor_crank_position' =
          IF is_motor_crank_at_bottom THEN 0 ELSE motor_crank_position
    /\ stop_irq_enabled' = TRUE
    /\ calibration' = "synced"
    /\ debounce_count' = 0
    /\ UNCHANGED initial_stop_state
    /\ frame' = [frame EXCEPT !["main"] = IdleFrame]
    /\ UNCHANGED <<motor_pulse_count, motor_direction, motor_crank_pulse_count,
                   motor_stop_pin>>
    /\ UNCHANGED <<pinVars, loadVars, current_gear, seek_note, bleVars>>

\* the 30 s (line 192) or the 10 min (line 254) of the running phase run out
CalibrationTimeoutElapses ==
    /\ frame["main"].pc \in {"cal_off", "cal_seek"}
    /\ ~frame["main"].expired
    /\ frame' = [frame EXCEPT !["main"].expired = TRUE]
    /\ UNCHANGED <<sensorVars, pinVars, loadVars, current_gear, seek_note,
                   calVars, bleVars>>

----------------------------------------------------------------------------
(* BLEController: connection events and the FTMS control point             *)

\* op codes (Table 4.16.1) the dispatcher names
CP_REQUEST_CONTROL == 0
CP_RESET == 1
CP_SET_TARGET_INCLINATION == 3
CP_SET_TARGET_RESISTANCE == 4
CP_SET_TARGET_POWER == 5
CP_START_OR_RESUME == 7
CP_STOP_OR_PAUSE == 8
CP_SET_INDOOR_BIKE_SIM == 17
CP_RESPONSE_CODE == 128

RESULT_SUCCESS == 1
RESULT_NOT_SUPPORTED == 2
RESULT_INVALID_PARAM == 3
RESULT_CONTROL_NOT_PERMITTED == 5

STATUS_RESET == 1
STATUS_STOPPED_PAUSED == 2
STATUS_STARTED_RESUMED == 4
STATUS_TARGET_INCLINE_CHANGED == 6
STATUS_TARGET_RESISTANCE_CHANGED == 7
STATUS_TARGET_POWER_CHANGED == 8
STATUS_INDOOR_BIKE_SIM_CHANGED == 18

NoHandle == "None"
NoSim == [wind_speed |-> 0, grade |-> 0, crr |-> 0, cw |-> 0]

\* struct.unpack("<H", b)[0] and struct.unpack("<h", b)[0] of two bytes
UInt16LE(lo, hi) == lo + 256 * hi

\* a decoding of the two bytes that forgets the sign
Int16LEUnsigned(lo, hi) == lo + 256 * hi

Int16LE(lo, hi) ==
    IF UInt16LE(lo, hi) >= 32768 THEN UInt16LE(lo, hi) - 65536 ELSE UInt16LE(lo, hi)

\* value[a:b] of Python, for 0-based a <= b <= len(value)
Slice(value, a, b) == SubSeq(value, a + 1, b)

\* a dispatcher that answers SUCCESS whatever the length of the payload
ResultIgnoringLength(value) ==
    IF value[1] \in {CP_REQUEST_CONTROL, CP_RESET, CP_SET_TARGET_INCLINATION,
                     CP_SET_TARGET_RESISTANCE, CP_SET_TARGET_POWER,
                     CP_START_OR_RESUME, CP_STOP_OR_PAUSE, CP_SET_INDOOR_BIKE_SIM}
    THEN RESULT_SUCCESS
    ELSE RESULT_NOT_SUPPORTED

\* a dispatcher that answers NOT_SUPPORTED to a payload that is too short
ResultShortUnsupported(value) ==
    IF ResultIgnoringLength(value) = RESULT_SUCCESS
    THEN IF \/ value[1] \in {CP_SET_TARGET_INCLINATION, CP_SET_TARGET_RESISTANCE,
                              CP_SET_TARGET_POWER} /\ Len(value) < 3
            \/ value[1] = CP_SET_INDOOR_BIKE_SIM /\ Len(value) < 7
         THEN RESULT_NOT_SUPPORTED
         ELSE RESULT_SUCCESS
    ELSE RESULT_NOT_SUPPORTED

\* a dispatcher that answers SUCCESS to an op code it has no branch for
ResultUnknownSucceeds(value) ==
    IF ResultIgnoringLength(value) = RESULT_SUCCESS
    THEN IF ResultShortUnsupported(value) = RESULT_SUCCESS
         THEN RESULT_SUCCESS
         ELSE RESULT_INVALID_PARAM
    ELSE RESULT_SUCCESS

\* a dispatcher that refuses every command until control was requested
ResultNeedsControl(value) ==
    IF value[1] # CP_REQUEST_CONTROL /\ ~control_granted
    THEN RESULT_CONTROL_NOT_PERMITTED
    ELSE IF ResultIgnoringLength(value) # RESULT_SUCCESS THEN RESULT_NOT_SUPPORTED
    ELSE IF ResultShortUnsupported(value) # RESULT_SUCCESS THEN RESULT_INVALID_PARAM
    ELSE RESULT_SUCCESS

\* the result code _handle_control_point reaches for a write of >= 1 byte
Result(value) ==
    LET op == value[1]
    IN  IF op \in {CP_REQUEST_CONTROL, CP_RESET, CP_START_OR_RESUME, CP_STOP_OR_PAUSE}
        THEN RESULT_SUCCESS
        ELSE IF op \in {CP_SET_TARGET_INCLINATION, CP_SET_TARGET_RESISTANCE,
                        CP_SET_TARGET_POWER}
        THEN IF Len(value) >= 3 THEN RESULT_SUCCESS ELSE RESULT_INVALID_PARAM
        ELSE IF op = CP_SET_INDOOR_BIKE_SIM
        THEN IF Len(value) >= 7 THEN RESULT_SUCCESS ELSE RESULT_INVALID_PARAM
        ELSE RESULT_NOT_SUPPORTED

\* a command whose branch body runs: a supported op code with enough bytes
Accepted(value) == Result(value) = RESULT_SUCCESS

\* the command calls load_controller.set_incline (lines 421, 434, 474)
ForwardsIncline(value) ==
    /\ Accepted(value)
    /\ value[1] \in {CP_SET_TARGET_INCLINATION, CP_SET_TARGET_RESISTANCE,
                     CP_SET_INDOOR_BIKE_SIM}

\* a grade taken in tenths of a percent
GradePercentTenths(grade) == grade * 10

\* line 471: grade_pct = sim_grade / 100.0, in hundredths of a percent
GradePercent(grade) == grade

\* a hand-over of the raw field, without the division by 10
ForwardedInclineUnscaled(value) ==
    IF value[1] = CP_SET_INDOOR_BIKE_SIM
    THEN GradePercent(Int16LE(value[4], value[5]))
    ELSE Int16LE(value[2], value[3])

\* the incline it hands over, in hundredths: incline_raw / 10.0,
\* target_resistance / 10.0, sim_grade / 100.0
ForwardedIncline(value) ==
    IF value[1] = CP_SET_INDOOR_BIKE_SIM
    THEN GradePercent(Int16LE(value[4], value[5]))
    ELSE Int16LE(value[2], value[3]) * 10

\* the status packet of a command (status code + parameters), <<>> if none
StatusData(value) ==
    LET op == value[1]
    IN  IF ~Accepted(value) THEN <<>>
        ELSE IF op = CP_RESET THEN <<STATUS_RESET>>
        ELSE IF op = CP_SET_TARGET_INCLINATION
        THEN <<STATUS_TARGET_INCLINE_CHANGED>> \o Slice(value, 1, 3)
        ELSE IF op = CP_SET_TARGET_RESISTANCE
        THEN <<STATUS_TARGET_RESISTANCE_CHANGED>> \o Slice(value, 1, 3)
        ELSE IF op = CP_SET_TARGET_POWER
        THEN <<STATUS_TARGET_POWER_CHANGED>> \o Slice(value, 1, 3)
        ELSE IF op = CP_START_OR_RESUME THEN <<STATUS_STARTED_RESUMED>>
        ELSE IF op = CP_STOP_OR_PAUSE
        THEN <<STATUS_STOPPED_PAUSED, IF Len(value) > 1 THEN value[2] ELSE 1>>
        ELSE IF op = CP_SET_INDOOR_BIKE_SIM
        THEN <<STATUS_INDOOR_BIKE_SIM_CHANGED>> \o Slice(value, 1, 7)
        ELSE <<>>

\* the training-status packet of a command, <<>> if none (lines 450, 456)
TrainingData(value) ==
    IF value[1] = CP_START_OR_RESUME THEN <<0, 4>>
    ELSE IF value[1] = CP_STOP_OR_PAUSE THEN <<0, 1>>
    ELSE <<>>

\* a notification that is sent whether or not a peer is connected
NotifyUnconditionally(handle, data) ==
    IF data # <<>>
    THEN <<[call |-> "gatts_write", handle |-> handle, data |-> data],
           [call |-> "gatts_notify", handle |-> handle, data |-> data]>>
    ELSE <<>>

\* _notify_status / _notify_training_status: write and notify, only if connected
Notify(handle, data) ==
    IF connected /\ data # <<>>
    THEN <<[call |-> "gatts_write", handle |-> handle, data |-> data],
           [call |-> "gatts_notify", handle |-> handle, data |-> data]>>
    ELSE <<>>

\* a response that is written and never indicated
RespondWithoutIndication(value) ==
    <<[call |-> "gatts_write", handle |-> "control_point",
       data |-> <<CP_RESPONSE_CODE, value[1], Result(value)>>]>>

\* lines 486-490: write the response, indicate it if connected
Respond(value) ==
    <<[call |-> "gatts_write", handle |-> "control_point",
       data |-> <<CP_RESPONSE_CODE, value[1], Result(value)>>]>>
    \o (IF connected
        THEN <<[call |-> "gatts_indicate", handle |-> "control_point", data |-> <<>>]>>
        ELSE <<>>)

\* the fields a command's branch assigns before any set_incline call
DispatchTargets(value) ==
    LET op == value[1]
    IN  /\ control_granted' =
              IF op = CP_REQUEST_CONTROL THEN TRUE ELSE control_granted
        /\ target_incline' =
              IF op = CP_RESET THEN 0
              ELSE IF Accepted(value) /\ op = CP_SET_TARGET_INCLINATION
              THEN Int16LE(value[2], value[3]) * 10
              ELSE IF Accepted(value) /\ op = CP_SET_INDOOR_BIKE_SIM
              THEN GradePercent(Int16LE(value[4], value[5]))
              ELSE target_incline
        /\ target_resistance' =
              IF op = CP_RESET THEN 0
              ELSE IF Accepted(value) /\ op = CP_SET_TARGET_RESISTANCE
              THEN Int16LE(value[2], value[3])
              ELSE target_resistance
        /\ target_power' =
              IF op = CP_RESET THEN 0
              ELSE IF Accepted(value) /\ op = CP_SET_TARGET_POWER
              THEN UInt16LE(value[2], value[3])
              ELSE target_power
        /\ sim' =
              IF Accepted(value) /\ op = CP_SET_INDOOR_BIKE_SIM
              THEN [wind_speed |-> Int16LE(value[2], value[3]),
                    grade |-> Int16LE(value[4], value[5]),
                    crr |-> value[6],
                    cw |-> value[7]]
              ELSE sim

\* a handler that answers before it notifies
FinishDispatchResponseFirst(value) ==
    tx' = Respond(value)
          \o Notify("status", StatusData(value))
          \o Notify("training_status", TrainingData(value))

\* the rest of the handler once any set_incline call has returned:
\* status and training-status notifications, then the response
FinishDispatch(value) ==
    tx' = Notify("status", StatusData(value))
          \o Notify("training_status", TrainingData(value))
          \o Respond(value)

\* _irq_handler, _IRQ_GATTS_WRITE on the control point: _handle_control_point
\* up to the return of the response or to line 520 of a set_incline call
HandleControlPoint(value) ==
    /\ frame["irq"].pc = "idle"
    /\ cp_value' = value
    /\ IF Len(value) < 1
       THEN /\ tx' = <<>>
            /\ UNCHANGED <<loadVars, frame, connVars, targetVars>>
       ELSE /\ DispatchTargets(value)
            /\ IF ~ForwardsIncline(value)
               THEN /\ FinishDispatch(value)
                    /\ UNCHANGED <<loadVars, frame>>
               ELSE /\ incline_percent' = ClampIncline(ForwardedIncline(value))
                    /\ UpdateLoadCompute("irq", current_gear,
                                         ClampIncline(ForwardedIncline(value)))
                    /\ tx' = <<>>
                    /\ UNCHANGED motor_is_running
            /\ UNCHANGED <<connected, conn_handle, pairing_mode, pairing_mode_start_time,
                           advertised_name, advertising>>
    /\ UNCHANGED <<sensorVars, pinVars, current_gear, seek_note, calVars, dataVars>>

\* the handler's set_incline call reaches line 562; if no seek starts the
\* call returns and the handler finishes
HandlerDecide ==
    /\ UpdateLoadDecide("irq")
    /\ IF frame'["irq"].pc = "idle"
       THEN FinishDispatch(cp_value)
       ELSE UNCHANGED tx
    /\ UNCHANGED cp_value
    /\ UNCHANGED <<motor_pulse_count, motor_crank_position,
                   motor_crank_pulse_count, stop_irq_enabled, motor_stop_pin>>
    /\ UNCHANGED <<incline_percent, total_load, current_gear, calVars, connVars,
                   targetVars, dataVars>>

\* the handler's seek leaves its polling loop and the handler finishes
HandlerSeekExit ==
    /\ SeekPollExit("irq")
    /\ FinishDispatch(cp_value)
    /\ UNCHANGED cp_value
    /\ UNCHANGED <<sensorVars, incline_percent, total_load, current_gear, calVars,
                   connVars, targetVars, dataVars>>

\* _advertise: gap_advertise(interval, adv_data) under the name of the mode
Advertise(pairing) ==
    /\ advertised_name' = IF pairing THEN "pairing" ELSE "normal"
    /\ advertising' = TRUE

\* stop_pairing_mode
StopPairingMode ==
    /\ pairing_mode' = FALSE
    /\ IF pairing_mode
       THEN Advertise(FALSE)
       ELSE UNCHANGED <<advertised_name, advertising>>

\* a connect that leaves pairing mode as it was
CentralConnectKeepsPairing(h) ==
    /\ frame["irq"].pc = "idle"
    /\ connected' = TRUE
    /\ conn_handle' = h
    /\ advertising' = FALSE
    /\ UNCHANGED <<pairing_mode, advertised_name>>
    /\ UNCHANGED <<control_granted, pairing_mode_start_time, targetVars, cp_value, tx,
                   dataVars>>
    /\ UNCHANGED <<sensorVars, pinVars, loadVars, current_gear, ctxVars>>

\* _irq_handler, _IRQ_CENTRAL_CONNECT; the radio stops advertising when a
\* central connects, and stop_pairing_mode() restarts it
CentralConnect(h) ==
    /\ frame["irq"].pc = "idle"
    /\ connected' = TRUE
    /\ conn_handle' = h
    /\ pairing_mode' = FALSE
    /\ IF pairing_mode
       THEN Advertise(FALSE)
       ELSE /\ advertising' = FALSE
            /\ UNCHANGED advertised_name
    /\ UNCHANGED <<control_granted, pairing_mode_start_time, targetVars, cp_value, tx,
                   dataVars>>
    /\ UNCHANGED <<sensorVars, pinVars, loadVars, current_gear, ctxVars>>

\* a disconnect that does not restart advertising
CentralDisconnectSilent ==
    /\ frame["irq"].pc = "idle"
    /\ connected' = FALSE
    /\ conn_handle' = NoHandle
    /\ control_granted' = FALSE
    /\ UNCHANGED <<advertised_name, advertising>>
    /\ UNCHANGED <<pairing_mode, pairing_mode_start_time, targetVars, cp_value, tx,
                   dataVars>>
    /\ UNCHANGED <<sensorVars, pinVars, loadVars, current_gear, ctxVars>>

\* _irq_handler, _IRQ_CENTRAL_DISCONNECT
CentralDisconnect ==
    /\ frame["irq"].pc = "idle"
    /\ connected' = FALSE
    /\ conn_handle' = NoHandle
    /\ control_granted' = FALSE
    /\ Advertise(pairing_mode)
    /\ UNCHANGED <<pairing_mode, pairing_mode_start_time, targetVars, cp_value, tx,
                   dataVars>>
    /\ UNCHANGED <<sensorVars, pinVars, loadVars, current_gear, ctxVars>>

\* start_pairing_mode
StartPairingMode ==
    /\ MainIdle
    /\ pairing_mode' = TRUE
    /\ IF pairing_mode
       THEN UNCHANGED <<pairing_mode_start_time, advertised_name, advertising>>
       ELSE /\ pairing_mode_start_time' = now
            /\ Advertise(TRUE)
    /\ UNCHANGED <<connected, conn_handle, control_granted, targetVars, cp_value, tx,
                   dataVars>>
    /\ UNCHANGED <<sensorVars, pinVars, loadVars, current_gear, ctxVars>>

pairing_mode_duration_ms == 120000

\* update_pairing_mode(utime.ticks_ms())
UpdatePairingMode ==
    /\ MainIdle
    /\ IF pairing_mode /\ now - pairing_mode_start_time >= pairing_mode_duration_ms
       THEN StopPairingMode
       ELSE UNCHANGED <<pairing_mode, advertised_name, advertising>>
    /\ UNCHANGED <<connected, conn_handle, control_granted, pairing_mode_start_time,
                   targetVars, cp_value, tx, dataVars>>
    /\ UNCHANGED <<sensorVars, pinVars, loadVars, current_gear, ctxVars>>

\* utime.ticks_ms() advances while the pairing window is open or closed
PairingTick(d) ==
    /\ now + d <= MaxPairingClock
    /\ now' = now + d
    /\ UNCHANGED <<sensorVars, pinVars, loadVars, current_gear, ctxVars, connVars,
                   targetVars, cp_value, tx, cscVars, bx, ibd_readings>>

----------------------------------------------------------------------------
(* BLEController: telemetry broadcasts.  The readings of the speed provider *)
(* are inputs: the speed in thousandths of km/h, the cadence of the Indoor  *)
(* Bike Data frame in tenths of rpm, the wheel and crank rpm of the CSC     *)
(* counters as integers.  A load percentage is held in hundredths of a      *)
(* percent.                                                                 *)

NoReadings == [speed |-> -1, cadence |-> -1, load |-> -1]

\* a broadcast that does not look at the connection
BroadcastsAlways == TRUE

\* lines 510-511 and 554-555: a broadcast returns at once unless connected
Broadcasts == connected

\* positions whose load percentage times 10 falls just short of an integer
\* in double arithmetic: int((p / 500) * 100.0 * 10) = 2 p - 1
FloatShortfall ==
    {11, 22, 44, 59, 88, 103, 118, 119, 141, 145, 173, 176, 181, 206, 211,
     236, 238, 241, 282, 285, 289, 290, 309, 339, 346, 352, 353, 357, 362,
     373, 412, 419, 422, 463, 467, 472, 476, 477, 482}

\* a load percentage taken from the signed position
CurrentLoadPercentSigned(pos) ==
    Min(10000, (pos * 10000) \div max_load_position)

\* get_current_load_percent() with a motor sensor, lines 615-623:
\* max(0, min(100, |position| / 500 * 100)), in hundredths of a percent
CurrentLoadPercent(pos) ==
    Max(0, Min(10000, (Abs(pos) * 10000) \div max_load_position))

\* line 534 on get_current_load_percent(): int(resistance_pct * 10)
ResistanceFtms(pos) ==
    Min(1000, 2 * Abs(pos) - (IF Abs(pos) \in FloatShortfall THEN 1 ELSE 0))

\* a speed field scaled by 10 instead of 100
SpeedFieldTenths(speed) == (speed * 10) \div 1000

\* line 528: speed_ftms = int(speed_kmh * 100)
SpeedField(speed) == (speed * 100) \div 1000

\* line 531: cadence_ftms = int(cadence_rpm * 2)
CadenceField(cadence) == (cadence * 2) \div 10

\* line 534: resistance_ftms = int(resistance_pct * 10), for a load percentage
ResistanceField(load) == (load * 10) \div 100

\* struct.pack("<H", v) and struct.pack("<h", v) raise outside these ranges
FitsUInt16(v) == v >= 0 /\ v <= 65535
FitsInt16(v) == v >= -32768 /\ v <= 32767

\* flags: instantaneous cadence, resistance level, instantaneous power
IBD_FLAGS == 100

\* lines 514-547: the Indoor Bike Data frame and its two GATT calls; an
\* exception of struct.pack is caught at line 549 and nothing is sent
IndoorBikeCalls(speed, cadence) ==
    LET data == <<IBD_FLAGS, SpeedField(speed), CadenceField(cadence),
                  ResistanceFtms(motor_crank_position), 0>>
    IN  IF /\ FitsUInt16(SpeedField(speed)) /\ FitsUInt16(CadenceField(cadence))
           /\ FitsInt16(ResistanceFtms(motor_crank_position))
        THEN <<[call |-> "gatts_write", handle |-> "indoor_bike_data", data |-> data],
               [call |-> "gatts_notify", handle |-> "indoor_bike_data", data |-> data]>>
        ELSE <<>>

\* line 559: current_time * 1024 // 1000, and the & 0xFFFF of lines 573, 576
EventTime1024(t) == ((t * 1024) \div 1000) % 65536

\* lines 572 and 575: int((rpm / 60.0) * dt_sec)
Revolutions(rpm, dt) == (rpm * dt) \div 60000

\* the counters of a call that takes the elapsed time with the wrong sign
CscCountersReversedClock(wheel_rpm, crank_rpm) ==
    LET counting == last_update_time > 0
        dt == last_update_time - now
    IN  [wheel_revolutions |->
             IF counting /\ wheel_rpm > 0
             THEN wheel_revolutions + Revolutions(wheel_rpm, dt)
             ELSE wheel_revolutions,
         last_wheel_event_time |->
             IF counting /\ wheel_rpm > 0
             THEN EventTime1024(now) ELSE last_wheel_event_time,
         crank_revolutions |->
             IF counting /\ crank_rpm > 0
             THEN crank_revolutions + Revolutions(crank_rpm, dt)
             ELSE crank_revolutions,
         last_crank_event_time |->
             IF counting /\ crank_rpm > 0
             THEN EventTime1024(now) ELSE last_crank_event_time]

\* lines 569-576: the cumulative counters after a connected call
CscCounters(wheel_rpm, crank_rpm) ==
    LET counting == last_update_time > 0
        dt == now - last_update_time
    IN  [wheel_revolutions |->
             IF counting /\ wheel_rpm > 0
             THEN wheel_revolutions + Revolutions(wheel_rpm, dt)
             ELSE wheel_revolutions,
         last_wheel_event_time |->
             IF counting /\ wheel_rpm > 0
             THEN EventTime1024(now) ELSE last_wheel_event_time,
         crank_revolutions |->
             IF counting /\ crank_rpm > 0
             THEN crank_revolutions + Revolutions(crank_rpm, dt)
             ELSE crank_revolutions,
         last_crank_event_time |->
             IF counting /\ crank_rpm > 0
             THEN EventTime1024(now) ELSE last_crank_event_time]

\* lines 580-588: the CSC measurement frame and its two GATT calls; the
\* counters are never negative and stay below 2^31 in every run, where the
\* mask & 0xFFFFFFFF of line 583 returns its argument
CscCalls(c) ==
    LET data == <<3, c.wheel_revolutions, c.last_wheel_event_time,
                  c.crank_revolutions % 65536, c.last_crank_event_time>>
    IN  <<[call |-> "gatts_write", handle |-> "csc_measurement", data |-> data],
          [call |-> "gatts_notify", handle |-> "csc_measurement", data |-> data]>>

\* no run of CSC ticks is under way
NoRun == [since |-> 0, wheel |-> 0, crank |-> 0, wheel_rpm |-> 0, crank_rpm |-> 0,
          dt |-> 0]

\* the run of ticks a counting call belongs to: the run so far if the call
\* comes at its interval with its readings, a run that begins at the previous
\* call otherwise
CscRun(wheel_rpm, crank_rpm) ==
    LET dt == now - last_update_time
    IN  IF last_update_time <= 0 THEN NoRun
        ELSE IF /\ csc_run.dt = dt
                /\ csc_run.wheel_rpm = wheel_rpm
                /\ csc_run.crank_rpm = crank_rpm
        THEN csc_run
        ELSE [since |-> last_update_time, wheel |-> wheel_revolutions,
              crank |-> crank_revolutions, wheel_rpm |-> wheel_rpm,
              crank_rpm |-> crank_rpm, dt |-> dt]

\* lines 553-588 without the GATT log
CscUpdate(wheel_rpm, crank_rpm) ==
    IF Broadcasts
    THEN LET c == CscCounters(wheel_rpm, crank_rpm)
         IN  /\ csc_run' = CscRun(wheel_rpm, crank_rpm)
             /\ wheel_revolutions' = c.wheel_revolutions
             /\ last_wheel_event_time' = c.last_wheel_event_time
             /\ crank_revolutions' = c.crank_revolutions
             /\ last_crank_event_time' = c.last_crank_event_time
             /\ last_update_time' = now
    ELSE UNCHANGED cscVars

\* everything a broadcast call leaves alone
BroadcastFrame ==
    UNCHANGED <<sensorVars, pinVars, loadVars, current_gear, ctxVars, connVars,
                targetVars, cp_value, tx, now>>

\* lines 515-525: the readings an Indoor Bike Data frame is built from
Readings(speed, cadence) ==
    [speed |-> speed, cadence |-> cadence,
     load |-> CurrentLoadPercent(motor_crank_position)]

\* update_indoor_bike_data()
UpdateIndoorBikeData(speed, cadence) ==
    /\ MainIdle
    /\ bx' = IF Broadcasts THEN IndoorBikeCalls(speed, cadence) ELSE <<>>
    /\ ibd_readings' = IF Broadcasts THEN Readings(speed, cadence) ELSE NoReadings
    /\ UNCHANGED cscVars
    /\ BroadcastFrame

\* SpeedController: fixed_gear_adjustment = 6.2, in tenths
fixed_gear_adjustment == 62
\* wheel_circumference = 2.075 m, in millimetres; calibration_factor = 1.0
wheel_circumference == 2075
\* self.unit = 'mph' in the constructor, written nowhere else
unit == "mph"

\* get_calculated_speed, lines 120-132: virtual_rpm = wheel_rpm /
\* fixed_gear_adjustment * gear_ratio; rpm_to_speed_kmh: rpm *
\* wheel_circumference * calibration_factor * 0.06.  Thousandths of km/h are
\* SpeedNum over SpeedDen
SpeedNum(wheel_rpm, g) == wheel_rpm * GearRatio(g) * wheel_circumference * 6
SpeedDen == fixed_gear_adjustment * RatioDen * 10

\* rpm_to_speed_kmh of the virtual rpm, in thousandths of km/h
RpmToSpeedKmh(wheel_rpm, g) == SpeedNum(wheel_rpm, g) \div SpeedDen

\* rpm_to_speed_mph: speed_kmh * 0.621371, in thousandths of mph, the product
\* SpeedNum * 621371 / (SpeedDen * 10^6) taken in parts that fit 32 bits
RpmToSpeedMph(wheel_rpm, g) ==
    LET q == SpeedNum(wheel_rpm, g) \div SpeedDen
        r == SpeedNum(wheel_rpm, g) % SpeedDen
        a == (r * 621) \div SpeedDen
        b == (r * 621) % SpeedDen
        f == a * 1000 + (b * 1000 + r * 371) \div SpeedDen
    IN  (q * 621 + (q * 371 + f) \div 1000) \div 1000

\* get_calculated_speed() with a wheel sensor and a gear selector
GetCalculatedSpeed(wheel_rpm) ==
    IF unit = "mph" THEN RpmToSpeedMph(wheel_rpm, current_gear)
    ELSE RpmToSpeedKmh(wheel_rpm, current_gear)

\* update_indoor_bike_data() of a controller built with the SpeedController:
\* lines 520-522 read get_calculated_speed() and get_crank_rpm()
UpdateIndoorBikeDataFromController(wheel_rpm, crank_rpm) ==
    UpdateIndoorBikeData(GetCalculatedSpeed(wheel_rpm), crank_rpm * 10)

\* update_csc_data()
UpdateCscData(wheel_rpm, crank_rpm) ==
    /\ MainIdle
    /\ CscUpdate(wheel_rpm, crank_rpm)
    /\ bx' = IF Broadcasts
             THEN CscCalls(CscCounters(wheel_rpm, crank_rpm)) ELSE <<>>
    /\ ibd_readings' = NoReadings
    /\ BroadcastFrame

\* update(): update_indoor_bike_data(), then update_csc_data()
Update(speed, wheel_rpm, crank_rpm) ==
    /\ MainIdle
    /\ CscUpdate(wheel_rpm, crank_rpm)
    /\ bx' = IF Broadcasts
             THEN IndoorBikeCalls(speed, crank_rpm * 10)
                  \o CscCalls(CscCounters(wheel_rpm, crank_rpm))
             ELSE <<>>
    /\ ibd_readings' = IF Broadcasts THEN Readings(speed, crank_rpm * 10)
                       ELSE NoReadings
    /\ BroadcastFrame

\* the clock advances between two calls of the main loop
Tick(d) ==
    /\ now + d <= MaxClock
    /\ now' = now + d
    /\ UNCHANGED <<sensorVars, pinVars, loadVars, current_gear, ctxVars, connVars,
                   targetVars, cp_value, tx, cscVars, bx, ibd_readings>>

----------------------------------------------------------------------------
(* Bench harness (test_motor_sensors.py): the sensor object and the        *)
(* actuator primitives are driven directly, in any order.                  *)

BenchPulse ==
    /\ Abs(motor_pulse_count + motor_direction) <= MaxPulseCount
    /\ RotationPulse

BenchForward ==
    /\ SetMotorDirectionForward
    /\ UNCHANGED <<motor_pulse_count, motor_crank_position,
                   motor_crank_pulse_count, stop_irq_enabled, motor_stop_pin>>
    /\ UNCHANGED restVars

BenchReverse ==
    /\ SetMotorDirectionReverse
    /\ UNCHANGED <<motor_pulse_count, motor_crank_position,
                   motor_crank_pulse_count, stop_irq_enabled, motor_stop_pin>>
    /\ UNCHANGED restVars

BenchStop ==
    /\ StopMotor
    /\ UNCHANGED <<sensorVars, restVars>>

BenchSync ==
    /\ SyncPositionToSensor
    /\ UNCHANGED <<pinVars, restVars>>

BenchResetCount ==
    /\ ResetCount
    /\ UNCHANGED <<pinVars, restVars>>

BenchResetCrankCount ==
    /\ ResetMotorCrankCount
    /\ UNCHANGED <<pinVars, restVars>>

BenchDisableIrq ==
    /\ DisableStopInterrupt
    /\ UNCHANGED <<pinVars, restVars>>

BenchEnableIrq ==
    /\ EnableStopInterrupt
    /\ UNCHANGED <<pinVars, restVars>>

----------------------------------------------------------------------------
(* set_motor_direction_forward / set_motor_direction_reverse statement by   *)
(* statement (Class_LoadController.py lines 387-392 and 400-405): the       *)
(* rotation ISR may run between any two of the four statements.             *)

\* line 387 / 400: write IN1
SetDirectionIn1(forward) ==
    /\ MainIdle
    /\ l298n_in1_pin' = IF forward THEN 1 ELSE 0
    /\ frame' = [frame EXCEPT !["main"].pc = "dir_in2", !["main"].forward = forward]
    /\ UNCHANGED <<l298n_in2_pin, current_direction>>
    /\ UNCHANGED <<sensorVars, loadVars, current_gear, seek_note, calVars, bleVars>>

\* line 388 / 401: write IN2
SetDirectionIn2 ==
    /\ MainMayRun
    /\ frame["main"].pc = "dir_in2"
    /\ l298n_in2_pin' = IF frame["main"].forward THEN 0 ELSE 1
    /\ frame' = [frame EXCEPT !["main"].pc = "dir_current"]
    /\ UNCHANGED <<l298n_in1_pin, current_direction>>
    /\ UNCHANGED <<sensorVars, loadVars, current_gear, seek_note, calVars, bleVars>>

\* line 389 / 402: record current_direction
SetDirectionCurrent ==
    /\ MainMayRun
    /\ frame["main"].pc = "dir_current"
    /\ current_direction' = IF frame["main"].forward THEN "forward" ELSE "reverse"
    /\ frame' = [frame EXCEPT !["main"].pc = "dir_sensor"]
    /\ UNCHANGED <<l298n_in1_pin, l298n_in2_pin>>
    /\ UNCHANGED <<sensorVars, loadVars, current_gear, seek_note, calVars, bleVars>>

\* lines 391-392 / 404-405: motor_sensor.set_motor_direction_forward/reverse()
SetDirectionSensor ==
    /\ MainMayRun
    /\ frame["main"].pc = "dir_sensor"
    /\ motor_direction' = IF frame["main"].forward THEN 1 ELSE -1
    /\ frame' = [frame EXCEPT !["main"] = IdleFrame]
    /\ UNCHANGED <<motor_pulse_count, motor_crank_position,
                   motor_crank_pulse_count, stop_irq_enabled, motor_stop_pin>>
    /\ UNCHANGED <<pinVars, loadVars, current_gear, seek_note, calVars, bleVars>>

\* stop_motor() called between two direction changes
DirectionStop ==
    /\ MainIdle
    /\ BenchStop

----------------------------------------------------------------------------
(* State after construction: MotorSensor.__init__, LoadController.__init__, *)
(* GearSelector.__init__.                                                  *)

Init ==
    /\ motor_pulse_count = 0
    /\ motor_crank_position = 0
    /\ motor_direction = 1
    /\ motor_crank_pulse_count = 0
    /\ stop_irq_enabled = TRUE
    /\ motor_stop_pin \in {0, 1}
    /\ l298n_in1_pin = 0
    /\ l298n_in2_pin = 0
    /\ current_direction = "none"
    /\ incline_percent = 0
    /\ motor_is_running = FALSE
    /\ total_load = 0
    /\ current_gear = 1
    /\ frame = [c \in Contexts |-> IdleFrame]
    /\ seek_note = NoNote
    /\ calibration = "not_run"
    /\ debounce_count = 0
    /\ initial_stop_state = FALSE
    /\ connected = FALSE
    /\ conn_handle = NoHandle
    /\ control_granted = FALSE
    /\ target_incline = 0
    /\ target_resistance = 0
    /\ target_power = 0
    /\ sim = NoSim
    /\ pairing_mode = FALSE
    /\ pairing_mode_start_time = 0
    /\ advertised_name = "normal"
    /\ advertising = TRUE
    /\ cp_value = <<>>
    /\ tx = <<>>
    /\ now = 0
    /\ wheel_revolutions = 0
    /\ crank_revolutions = 0
    /\ last_wheel_event_time = 0
    /\ last_crank_event_time = 0
    /\ last_update_time = 0
    /\ csc_run = NoRun
    /\ bx = <<>>
    /\ ibd_readings = NoReadings

NextSensor ==
    \/ BenchPulse
    \/ StopPinRises
    \/ StopPinFalls
    \/ BenchForward
    \/ BenchReverse
    \/ BenchStop
    \/ BenchSync
    \/ BenchResetCount
    \/ BenchResetCrankCount
    \/ BenchDisableIrq
    \/ BenchEnableIrq

SpecSensor == Init /\ [][NextSensor]_vars

\* direction runs: the bench harness changes direction and stops, rotation
\* pulses arrive at any statement boundary
NextDirection ==
    \/ \E forward \in BOOLEAN : SetDirectionIn1(forward)
    \/ SetDirectionIn2
    \/ SetDirectionCurrent
    \/ SetDirectionSensor
    \/ DirectionStop
    \/ BenchPulse

SpecDirection == Init /\ [][NextDirection]_vars


\* inclines the main loop sets in the controller runs, hundredths of a percent
CtlInclines == {0, -2000}

NextCtl ==
    \/ ApplyLoad
    \/ \E v \in CtlInclines : SetIncline(v)
    \/ IncrementGear
    \/ DecrementGear
    \/ MainDecide
    \/ MainSeekExit
    \/ SeekTimeoutElapses("main")
    \/ ActuatorPulse

Spec == Init /\ [][NextCtl]_vars


\* inclines the main loop sets in the load runs: the 5 % button steps, values
\* off the grid and values outside [-100, 100], hundredths of a percent
LoadInclines == {k * 500 : k \in -20..20} \cup {-15000, -770, 130, 1234, 12500}

\* load runs: every gear and incline, the actuator stalled
NextLoad ==
    \/ ApplyLoad
    \/ \E v \in LoadInclines : SetIncline(v)
    \/ IncrementGear
    \/ DecrementGear
    \/ MainDecide
    \/ MainSeekExit
    \/ SeekTimeoutElapses("main")

SpecLoad == Init /\ [][NextLoad]_vars


\* control-point writes of the protocol runs
ControlPointWrites ==
    { <<>>,
      <<0>>, <<1>>,
      <<3, 50, 0>>, <<3>>, <<3, 56, 255>>,
      <<4, 44, 1>>, <<4, 1>>, <<4, 56, 255>>, <<4, 208, 7>>,
      <<5, 200, 0>>, <<5, 200>>,
      <<7>>, <<8>>, <<8, 2>>,
      <<17, 0, 0, 94, 1, 33, 51>>, <<17, 0, 0, 94, 1, 33>>,
      <<17, 232, 3, 56, 255, 40, 51>>,
      <<2, 100, 0>>, <<255>> }

ConnHandles == {64}

NextBle ==
    \/ \E value \in ControlPointWrites : HandleControlPoint(value)
    \/ HandlerDecide
    \/ HandlerSeekExit
    \/ SeekTimeoutElapses("irq")
    \/ \E h \in ConnHandles : CentralConnect(h)
    \/ CentralDisconnect

SpecBle == Init /\ [][NextBle]_vars


\* control-point writes that preempt the main loop in the preemption runs
PreemptWrites == { <<3, 56, 255>> }

\* preemption runs: the main loop's seeks, control-point writes arriving at
\* any point of them, the actuator turning
NextPreempt ==
    \/ ApplyLoad
    \/ MainDecide
    \/ MainSeekExit
    \/ SeekTimeoutElapses("main")
    \/ \E value \in PreemptWrites : HandleControlPoint(value)
    \/ HandlerDecide
    \/ HandlerSeekExit
    \/ SeekTimeoutElapses("irq")
    \/ ActuatorPulse

SpecPreempt == Init /\ [][NextPreempt]_vars

\* control-point writes of the startup runs
StartupWrites == { <<3, 0, 0>> }

\* the rotation sensor during startup runs: pulses while a direction pin is
\* high, explored inside the bench window of the counter
StartupPulse ==
    /\ Energized
    /\ BenchPulse

NextStartup ==
    \/ CalibrationBegin
    \/ CalibrationOffPoll
    \/ CalibrationSettleStop
    \/ CalibrationResetAndSeek
    \/ CalibrationSeekPoll
    \/ CalibrationFoundStop
    \/ CalibrationSync
    \/ CalibrationTimeoutElapses
    \/ ApplyLoad
    \/ MainDecide
    \/ MainSeekExit
    \/ SeekTimeoutElapses("main")
    \/ RemoveLoad
    \/ RunMotorTimedEnd
    \/ \E value \in StartupWrites : HandleControlPoint(value)
    \/ HandlerDecide
    \/ HandlerSeekExit
    \/ SeekTimeoutElapses("irq")
    \/ StopPinRises
    \/ StopPinFalls
    \/ StartupPulse

\* the steps of the main loop; at most one is enabled at a time
MainStep ==
    \/ MainDecide
    \/ MainSeekExit
    \/ RunMotorTimedEnd
    \/ CalibrationOffPoll
    \/ CalibrationSettleStop
    \/ CalibrationResetAndSeek
    \/ CalibrationSeekPoll
    \/ CalibrationFoundStop
    \/ CalibrationSync

\* the steps of a BLE handler that is inside set_incline
HandlerStep == HandlerDecide \/ HandlerSeekExit

\* Scheduling: time passes, so a running timeout elapses; a BLE handler runs
\* to completion; the main loop gets the processor again after every handler.
\* Nothing is assumed of the sensors: no pulse and no home edge need occur.
StartupFairness ==
    /\ WF_vars(SeekTimeoutElapses("main"))
    /\ WF_vars(SeekTimeoutElapses("irq"))
    /\ WF_vars(CalibrationTimeoutElapses)
    /\ WF_vars(HandlerStep)
    /\ SF_vars(MainStep)

SpecStartup == Init /\ [][NextStartup]_vars /\ StartupFairness

\* homing runs: startup_calibration alone, the home pin changing at any
\* moment and the actuator turning while a direction pin is high
NextHoming ==
    \/ CalibrationBegin
    \/ CalibrationOffPoll
    \/ CalibrationSettleStop
    \/ CalibrationResetAndSeek
    \/ CalibrationSeekPoll
    \/ CalibrationFoundStop
    \/ CalibrationSync
    \/ CalibrationTimeoutElapses
    \/ StopPinRises
    \/ StopPinFalls
    \/ ActuatorPulse

SpecHoming == Init /\ [][NextHoming]_vars

\* readings of the speed provider in the telemetry runs
Speeds == {0, 25507}
WheelRpms == {0, 90}
CrankRpms == {0, 60}
\* milliseconds between two calls of the main loop
ClockSteps == {1000}

\* telemetry runs: broadcasts at any time, a central connecting and
\* disconnecting
NextData ==
    \/ \E speed \in Speeds, crank_rpm \in CrankRpms :
          UpdateIndoorBikeData(speed, crank_rpm * 10)
    \/ \E wheel_rpm \in WheelRpms, crank_rpm \in CrankRpms :
          UpdateCscData(wheel_rpm, crank_rpm)
    \/ \E speed \in Speeds, wheel_rpm \in WheelRpms, crank_rpm \in CrankRpms :
          Update(speed, wheel_rpm, crank_rpm)
    \/ \E d \in ClockSteps : Tick(d)
    \/ \E h \in ConnHandles : CentralConnect(h)
    \/ CentralDisconnect

SpecData == Init /\ [][NextData]_vars

\* wheel sensor readings of the speed runs
SpeedWheelRpms == {0, 120, 388, 500}

\* speed runs: the telemetry of a controller wired to the SpeedController,
\* in every gear
NextSpeed ==
    \/ IncrementGear
    \/ DecrementGear
    \/ MainDecide
    \/ MainSeekExit
    \/ SeekTimeoutElapses("main")
    \/ \E h \in ConnHandles : CentralConnect(h)
    \/ CentralDisconnect
    \/ \E wheel_rpm \in SpeedWheelRpms, crank_rpm \in CrankRpms :
          UpdateIndoorBikeDataFromController(wheel_rpm, crank_rpm)

SpecSpeed == Init /\ [][NextSpeed]_vars

\* readings of the frame runs: the ends of the encodable ranges, values
\* between two steps of a field, and a speed beyond the 16-bit field
FrameSpeeds == {0, 289, 25507, 655350, 655360}
FrameCadences == {4, 905, 327675}

\* the crank turns, in the direction set, until the readings of the frame
\* under observation are taken
FramePulse ==
    /\ ibd_readings = NoReadings
    /\ Abs(motor_pulse_count + motor_direction) <= MaxSeekPulseCount
    /\ RotationPulse

\* frame runs: Indoor Bike Data frames for every crank position
NextFrame ==
    \/ BenchForward
    \/ BenchReverse
    \/ FramePulse
    \/ \E h \in ConnHandles : CentralConnect(h)
    \/ \E speed \in FrameSpeeds, cadence \in FrameCadences :
          UpdateIndoorBikeData(speed, cadence)

SpecFrame == Init /\ [][NextFrame]_vars

PairingSteps == {30000}

\* pairing runs (test_ble.py, test_pairing_mode): pairing mode is started and
\* polled for its timeout while centrals connect and disconnect
NextPairing ==
    \/ StartPairingMode
    \/ UpdatePairingMode
    \/ \E d \in PairingSteps : PairingTick(d)
    \/ \E h \in ConnHandles : CentralConnect(h)
    \/ CentralDisconnect

SpecPairing == Init /\ [][NextPairing]_vars

\* inclines the main loop sets in the settling runs, hundredths of a percent
SteadyInclines == {-2000, 0, 2000}

\* a rotation pulse at any moment of an energized actuator
SteadyPulseAnyTime ==
    /\ ActuatorPulse

\* the actuator of the settling runs: the seek loop polls between any two
\* ticks (lines 447-456), so it leaves at the first position within tolerance
SteadyPulse ==
    /\ \A c \in Contexts : frame[c].pc = "seek" => ~SeekExits(c)
    /\ ActuatorPulse

\* settling runs: apply_load() and set_incline() called again and again from
\* the main loop, no seek running into its 30 s timeout
NextSteady ==
    \/ ApplyLoad
    \/ \E v \in SteadyInclines : SetIncline(v)
    \/ MainDecide
    \/ MainSeekExit
    \/ SteadyPulse

\* Scheduling: a call that has begun runs on to its return, and the
\* energized actuator keeps producing pulses.  Nothing makes the main loop
\* call again.
SteadyFairness ==
    /\ WF_vars(MainDecide)
    /\ WF_vars(MainSeekExit)
    /\ WF_vars(SteadyPulse)

SpecSteady == Init /\ [][NextSteady]_vars /\ SteadyFairness

----------------------------------------------------------------------------
(* C1: in every reachable state the tracked position satisfies             *)
(* |motor_crank_position| <= 500, whatever the interleaving of rotation    *)
(* pulses, home triggers, direction changes, sync and counter resets.      *)
C1_PositionClamped ==
    /\ motor_crank_position >= -max_load_position
    /\ motor_crank_position <= max_load_position

\* the forward clamp has acted: at +500, counting up, after a home trigger
C1_Witness ==
    /\ motor_crank_position = max_load_position
    /\ motor_direction = 1
    /\ motor_crank_pulse_count > 0

----------------------------------------------------------------------------
(* C2: with base_load_factor 1, whatever the sequence of set_incline()     *)
(* calls and gear changes, the total load _update_load computes is a       *)
(* multiple of 5 in [0, 100].                                              *)
C2_LoadQuantized == total_load \in {5 * k : k \in 0..20}

\* an off-grid incline in gear 3: 58.33 + 3.085 = 61.4 is quantized to 60
C2_Witness ==
    /\ current_gear = 3
    /\ incline_percent = 1234
    /\ total_load = 60

----------------------------------------------------------------------------
(* C3: with a motor sensor, once a seek has ended by convergence           *)
(* (|position - target| <= 5), a second apply_load() with the gear and the *)
(* incline unchanged starts no seek and sets no direction pin.             *)
C3_SecondApplyLoadIdle ==
    [][(/\ frame["main"].pc = "decide"
        /\ frame'["main"].pc # "decide"
        /\ seek_note.outcome = "converged"
        /\ seek_note.incline = incline_percent
        /\ seek_note.gear = current_gear)
       => (/\ frame'["main"].pc = "idle"
           /\ l298n_in1_pin' = 0
           /\ l298n_in2_pin' = 0)]_vars

----------------------------------------------------------------------------
(* C4: at most one seek or timed run is in flight, and motor_is_running    *)
(* is true exactly then; a further apply_load()/set_incline() that reaches *)
(* its decision while motor_is_running is true - a control-point write     *)
(* that preempts the main loop's seek included - starts no motion, changes *)
(* no direction pin and leaves nothing pending.                            *)
C4_OneSeekInFlight ==
    /\ [](LET inFlight == {c \in Contexts : frame[c].pc \in {"seek", "timed"}}
          IN  /\ Cardinality(inFlight) <= 1
              /\ motor_is_running <=> (inFlight # {}))
    /\ [][\A c \in Contexts :
            (/\ motor_is_running
             /\ frame[c].pc = "decide"
             /\ frame'[c].pc # "decide")
            => (/\ frame'[c] = IdleFrame
                /\ UNCHANGED <<pinVars, motor_direction, motor_is_running>>
                /\ \A d \in Contexts \ {c} : frame'[d] = frame[d])]_vars

\* a write of -20 % has reached its decision, 475 ticks from its target,
\* while the main loop's seek is in flight
C4_Witness ==
    /\ frame["main"].pc = "seek"
    /\ motor_is_running
    /\ frame["irq"].pc = "decide"
    /\ frame["irq"].far
    /\ incline_percent = -2000

----------------------------------------------------------------------------
(* C5: every seek that set a direction pin ends, by convergence or by the  *)
(* 30 s timeout, with both direction pins low and motor_is_running false.  *)
C5_SeekEndsStopped ==
    [][\A c \in Contexts :
         (frame[c].pc = "seek" /\ frame'[c].pc # "seek")
         => (/\ l298n_in1_pin' = 0
             /\ l298n_in2_pin' = 0
             /\ current_direction' = "none"
             /\ ~motor_is_running')]_vars

\* a seek has just ended by convergence
C5_Witness ==
    /\ seek_note.outcome = "converged"
    /\ motor_crank_position # 0
    /\ frame["main"].pc = "idle"
    /\ ~Energized
    /\ ~motor_is_running

----------------------------------------------------------------------------
(* C6: whenever a direction pin is high (seek, timed run or homing phase)  *)
(* the motor is eventually stopped, both pins low, whatever the sensors    *)
(* do: no pulse and no home edge need ever occur.                          *)
C6_EventuallyStopped == Energized ~> ~Energized

\* the Forward homing phase has run out its 10 minutes without a pulse and
\* without a home edge, the motor still driven
C6_Witness ==
    /\ Energized
    /\ frame["main"].pc = "cal_seek"
    /\ frame["main"].expired
    /\ motor_pulse_count = 0
    /\ motor_stop_pin = 0

----------------------------------------------------------------------------
(* C7: a control-point write of at least one byte produces exactly one     *)
(* response frame [0x80, op, result], written to the control point; it is  *)
(* indicated if and only if a central is connected at that moment; the     *)
(* response in the log is the one of the latest write.                     *)
C7_ResponseWrites(log) ==
    {i \in DOMAIN log : log[i].call = "gatts_write" /\ log[i].handle = "control_point"}
C7_Indications(log) ==
    {i \in DOMAIN log : log[i].call = "gatts_indicate"}

C7_OneResponse ==
    /\ []((frame["irq"].pc = "idle" /\ Len(cp_value) >= 1)
          => /\ Cardinality(C7_ResponseWrites(tx)) = 1
             /\ \A i \in C7_ResponseWrites(tx) :
                  /\ Len(tx[i].data) = 3
                  /\ tx[i].data[1] = 128
                  /\ tx[i].data[2] = cp_value[1]
                  /\ tx[i].data[3] \in {1, 2, 3})
    /\ [][(tx' # tx /\ tx' # <<>>)
          => /\ connected' = connected
             /\ Cardinality(C7_Indications(tx')) = (IF connected THEN 1 ELSE 0)
             /\ \A i \in C7_Indications(tx') :
                  i - 1 \in C7_ResponseWrites(tx') /\ i = Len(tx')]_vars

\* a write handled while connected: one response, indicated
C7_Witness ==
    /\ connected
    /\ frame["irq"].pc = "idle"
    /\ cp_value = <<4, 44, 1>>
    /\ Cardinality(C7_ResponseWrites(tx)) = 1
    /\ Cardinality(C7_Indications(tx)) = 1

----------------------------------------------------------------------------
(* C8: op 0x03 with at least 3 bytes sets target_incline to the signed     *)
(* little-endian 16-bit value of bytes 1-2 divided by 10, hands the same   *)
(* value to set_incline and answers 0x01; 03 32 00 gives 5.0 %.            *)
C8_SetTargetInclination ==
    (/\ frame["irq"].pc = "idle"
     /\ Len(cp_value) >= 3
     /\ cp_value[1] = 3)
    => LET raw == cp_value[2] + 256 * cp_value[3]
           signed == IF raw >= 32768 THEN raw - 65536 ELSE raw
       IN  /\ target_incline = signed * 10
           /\ incline_percent = Max(-10000, Min(10000, signed * 10))
           /\ cp_value = <<3, 50, 0>> => target_incline = 500
           /\ tx[Len(tx) - (IF tx[Len(tx)].call = "gatts_indicate" THEN 1 ELSE 0)].data
                 = <<128, 3, 1>>

\* 03 32 00 has been handled: 5.0 % in both places
C8_Witness ==
    /\ frame["irq"].pc = "idle"
    /\ cp_value = <<3, 50, 0>>
    /\ target_incline = 500
    /\ incline_percent = 500

----------------------------------------------------------------------------
(* C9: a payload too short for its op code (fewer than 3 bytes for 0x03,   *)
(* 0x04, 0x05; fewer than 7 for 0x11) is answered with result 0x03, sends  *)
(* no status notification and leaves target_*, sim_* and the controller's  *)
(* incline unchanged.                                                      *)
C9_ShortPayloadRejected ==
    [][(/\ frame["irq"].pc = "idle"
        /\ UNCHANGED connVars
        /\ bleVars' # bleVars
        /\ Len(cp_value') >= 1
        /\ \/ cp_value'[1] \in {3, 4, 5} /\ Len(cp_value') < 3
           \/ cp_value'[1] = 17 /\ Len(cp_value') < 7)
       => (/\ UNCHANGED <<targetVars, loadVars, pinVars, frame>>
           /\ \A i \in DOMAIN tx' : tx'[i].handle = "control_point"
           /\ tx'[1] = [call |-> "gatts_write", handle |-> "control_point",
                        data |-> <<128, cp_value'[1], 3>>])]_vars

\* the 6-byte simulation command has been refused
C9_Witness ==
    /\ cp_value = <<17, 0, 0, 94, 1, 33>>
    /\ tx # <<>>
    /\ tx[1].data = <<128, 17, 3>>
    /\ sim = NoSim

----------------------------------------------------------------------------
(* C10: an op code outside {0x00, 0x01, 0x03, 0x04, 0x05, 0x07, 0x08,      *)
(* 0x11} is answered with result 0x02, changes no target, no connection    *)
(* state and no controller state, and sends no status notification.        *)
C10_UnknownOpRefused ==
    [][(/\ frame["irq"].pc = "idle"
        /\ cp_value' # cp_value \/ tx' # tx
        /\ Len(cp_value') >= 1
        /\ cp_value'[1] \notin {0, 1, 3, 4, 5, 7, 8, 17})
       => (/\ UNCHANGED <<targetVars, connVars, loadVars, pinVars, frame, sensorVars,
                          current_gear>>
           /\ \A i \in DOMAIN tx' : tx'[i].handle = "control_point"
           /\ tx'[1] = [call |-> "gatts_write", handle |-> "control_point",
                        data |-> <<128, cp_value'[1], 2>>])]_vars

\* 0xFF has been refused while a central holds control
C10_Witness ==
    /\ cp_value = <<255>>
    /\ connected
    /\ control_granted
    /\ tx # <<>>
    /\ tx[1].data = <<128, 255, 2>>

----------------------------------------------------------------------------
(* C11: when startup_calibration begins with the home pin high it drives   *)
(* Reverse first, leaves that phase only after 10 consecutive low samples,  *)
(* stops, and only then drives Forward; when the Forward phase has seen 10  *)
(* consecutive high samples the calibration terminates with                 *)
(* motor_crank_position = 0, the motor stopped and the home interrupt       *)
(* enabled again.                                                           *)

PinsForward == l298n_in1_pin = 1 /\ l298n_in2_pin = 0
PinsReverse == l298n_in1_pin = 0 /\ l298n_in2_pin = 1

\* the order of the phases of a calibration that starts at home
C11_PhaseOrder ==
    /\ (calibration = "not_run" /\ calibration' = "running" /\ motor_stop_pin = 1)
        => (PinsReverse' /\ frame'["main"].pc = "cal_off")
    /\ (frame["main"].pc = "cal_off" /\ frame'["main"].pc # "cal_off"
           /\ calibration' = "running")
        => (debounce_count' = required_readings /\ PinsReverse
              /\ frame'["main"].pc = "cal_settle")
    /\ (frame["main"].pc = "cal_settle" /\ frame'["main"].pc # "cal_settle")
        => ~Energized'
    /\ (frame["main"].pc # "cal_seek" /\ frame'["main"].pc = "cal_seek"
           /\ calibration = "running")
        => (~Energized /\ PinsForward')
    /\ (frame["main"].pc = "cal_seek" /\ frame'["main"].pc = "cal_found")
        => debounce_count' = required_readings

\* the state in which a calibration that found home terminates
C11_EndState ==
    (initial_stop_state /\ calibration = "running" /\ calibration' = "synced")
        => (motor_crank_position' = 0 /\ ~Energized' /\ stop_irq_enabled')

\* the order of the phases alone
C11_ReverseStopForward == [][C11_PhaseOrder]_vars

C11_HomingFromHome == [][C11_PhaseOrder /\ C11_EndState]_vars

----------------------------------------------------------------------------
(* C12: a homing phase whose timeout has run out (30 s moving off home,     *)
(* 10 min seeking home) makes startup_calibration return with both          *)
(* direction pins low and the home interrupt enabled; every return of       *)
(* startup_calibration after the interrupt was masked leaves the interrupt  *)
(* enabled and the motor stopped.                                           *)
C12_ReturnsStoppedAndEnabled ==
    [][/\ (frame["main"].pc \in {"cal_off", "cal_seek"} /\ frame["main"].expired
              /\ frame'["main"] # frame["main"])
           => (calibration' = "failed" /\ frame'["main"].pc = "idle"
                 /\ ~Energized' /\ stop_irq_enabled')
       /\ (calibration = "running" /\ calibration' # "running")
           => (frame'["main"].pc = "idle" /\ ~Energized' /\ stop_irq_enabled')
       /\ (calibration = "running" /\ calibration' = "running")
           => ~stop_irq_enabled'
      ]_vars

\* a calibration that started at home, moved off it and timed out seeking it
C12_Witness ==
    /\ calibration = "failed"
    /\ initial_stop_state
    /\ motor_direction = 1
    /\ motor_crank_position > 0
    /\ ~Energized
    /\ stop_irq_enabled

----------------------------------------------------------------------------
(* C13: once startup_calibration has ended by timeout (the zero reference   *)
(* is unconfirmed), no later apply_load() or set_incline() call, from the   *)
(* main loop or from a control-point write, energizes the motor.            *)
C13_NoSeekAfterFailedHoming ==
    [][calibration = "failed"
         => \A c \in Contexts :
               ~(frame[c].pc = "decide" /\ frame'[c].pc = "seek" /\ Energized')
      ]_vars

----------------------------------------------------------------------------
(* C14: the control-point handler never waits on actuator motion: for every *)
(* write it emits its response and returns without entering the seek        *)
(* polling loop, so no response waits for the position to converge or for   *)
(* the 30 s seek timeout.                                                   *)
C14_HandlerNeverSeeks ==
    [][/\ frame'["irq"].pc # "seek"
       /\ (cp_value' # cp_value \/ tx' # tx) => frame["irq"].pc # "seek"
      ]_vars

----------------------------------------------------------------------------
(* C15: the direction pins and the position sensor's counting sign change   *)
(* atomically: the rotation-pulse ISR never runs while the pins read        *)
(* Forward (IN1 high, IN2 low) and motor_direction is -1, nor while the     *)
(* pins read Reverse (IN1 low, IN2 high) and motor_direction is +1.         *)
C15_PulseSignMatchesPins ==
    [][motor_pulse_count' = motor_pulse_count + motor_direction
         => /\ ~(PinsForward /\ motor_direction = -1)
            /\ ~(PinsReverse /\ motor_direction = 1)
      ]_vars

----------------------------------------------------------------------------
(* C16: motor_crank_position and the pulse counters are written only by the *)
(* two ISRs: every step that changes one of them is a run of the rotation   *)
(* ISR or of the home ISR, never a step of the main loop (homing,           *)
(* sync_position_to_sensor, seek, counter resets).                          *)
C16_RotationIsrStep ==
    /\ motor_pulse_count' = motor_pulse_count + motor_direction
    /\ motor_crank_position' = PulsePosition(motor_crank_position, motor_direction)
    /\ UNCHANGED <<motor_crank_pulse_count, frame>>

C16_HomeIsrStep ==
    /\ stop_irq_enabled
    /\ motor_stop_pin = 0 /\ motor_stop_pin' = 1
    /\ motor_crank_pulse_count' = motor_crank_pulse_count + 1
    /\ motor_crank_position' = 0
    /\ UNCHANGED <<motor_pulse_count, frame>>

C16_OnlyIsrsWrite ==
    [][(\/ motor_crank_position' # motor_crank_position
        \/ motor_pulse_count' # motor_pulse_count
        \/ motor_crank_pulse_count' # motor_crank_pulse_count)
         => (C16_RotationIsrStep \/ C16_HomeIsrStep)
      ]_vars

----------------------------------------------------------------------------
(* C17: after every central-connect event the connection handle is          *)
(* recorded, connected is true and control_granted is false, whatever       *)
(* commands (Request Control included) were dispatched before the connect.  *)
C17_ConnectClearsControl ==
    [][(~connected /\ connected')
         => (conn_handle' \in ConnHandles /\ ~control_granted')
      ]_vars

----------------------------------------------------------------------------
(* C18: after every central-disconnect event connected is false,            *)
(* conn_handle is None, control_granted is false and advertising has been   *)
(* restarted, while target_incline, target_resistance, target_power and     *)
(* the simulation parameters are unchanged.                                 *)
C18_DisconnectResets ==
    [][(connected /\ ~connected')
         => /\ conn_handle' = NoHandle
            /\ ~control_granted'
            /\ advertising'
            /\ advertised_name' = (IF pairing_mode THEN "pairing" ELSE "normal")
            /\ UNCHANGED targetVars
      ]_vars

\* disconnected after a Set Target Inclination that was notified to a peer
C18_Witness ==
    /\ ~connected
    /\ conn_handle = NoHandle
    /\ ~control_granted
    /\ advertising
    /\ cp_value = <<3, 50, 0>>
    /\ target_incline = 500
    /\ \E i \in 1..Len(tx) : tx[i].call = "gatts_notify"

----------------------------------------------------------------------------
(* C19: a machine-status or training-status notification is emitted only    *)
(* when a peer is connected at the moment of dispatch; a command dispatched *)
(* while disconnected still mutates the target state, but its notification  *)
(* is dropped and is not sent after a later connect (nothing is queued).    *)
C19_Notifications(log) ==
    {i \in 1..Len(log) : log[i].call = "gatts_notify"}

C19_NotifyOnlyWhenConnected ==
    [][\* GATT calls are made by a dispatch, and notifications only if connected
       /\ tx' # tx => (C19_Notifications(tx') # {} => connected)
       \* every notification of a dispatch carries that dispatch's own status
       /\ \A i \in C19_Notifications(tx') :
             tx'[i].data \in {StatusData(cp_value'), TrainingData(cp_value')}
       \* a disconnected dispatch still assigns the targets
       /\ (~connected /\ HandleControlPoint(<<5, 200, 0>>)) => target_power' = 200
       /\ (~connected /\ HandleControlPoint(<<3, 50, 0>>)) => target_incline' = 500
       /\ (~connected /\ HandleControlPoint(<<4, 44, 1>>)) => target_resistance' = 300
       \* a connect sends nothing
       /\ (~connected /\ connected') => tx' = tx
      ]_vars

\* Set Target Power was dispatched while disconnected, a peer connected
\* afterwards, and no notification has been sent
C19_Witness ==
    /\ connected
    /\ cp_value = <<5, 200, 0>>
    /\ target_power = 200
    /\ tx # <<>>
    /\ C19_Notifications(tx) = {}

----------------------------------------------------------------------------
(* C20: while disconnected, update_indoor_bike_data(), update_csc_data()    *)
(* and update() send no notification, write no characteristic and change    *)
(* no state: wheel_revolutions, crank_revolutions, the event times and      *)
(* last_update_time are unchanged.                                          *)
C20_DisconnectedBroadcastIsNoOp ==
    [][(~connected /\ ~connected')
         => /\ UNCHANGED cscVars
            /\ bx' = bx \/ bx' = <<>>
            /\ UNCHANGED <<targetVars, control_granted, tx>>
      ]_vars

\* counters that advanced while connected, then a broadcast call made after
\* the disconnect and after more time has passed
C20_Witness ==
    /\ ~connected
    /\ wheel_revolutions > 0
    /\ last_update_time > 0
    /\ now > last_update_time
    /\ bx = <<>>

----------------------------------------------------------------------------
(* C21: between two consecutive CSC broadcasts, with wheel and crank rpm    *)
(* >= 0, the cumulative counters wheel_revolutions and crank_revolutions do *)
(* not decrease; the fields of the frame are the counters reduced to the    *)
(* field width.                                                             *)
C21_CscFrames(log) ==
    {i \in 1..Len(log) :
        log[i].call = "gatts_notify" /\ log[i].handle = "csc_measurement"}

C21_CountersNeverDecrease ==
    [][/\ wheel_revolutions' >= wheel_revolutions
       /\ crank_revolutions' >= crank_revolutions
       /\ \A i \in C21_CscFrames(bx') :
             bx' # bx =>
               /\ bx'[i].data[2] = wheel_revolutions'
               /\ bx'[i].data[4] = crank_revolutions' % 65536
      ]_vars

\* both counters have advanced over more than one broadcast
C21_Witness ==
    /\ connected
    /\ wheel_revolutions >= 2
    /\ crank_revolutions >= 2
    /\ C21_CscFrames(bx) # {}

----------------------------------------------------------------------------
(* C22: for every speed in [0, 655.35] km/h, cadence in [0, 32767.5] rpm    *)
(* and load percent in [0, 100], decoding the Indoor Bike Data frame built  *)
(* by update_indoor_bike_data (speed field / 100, cadence field / 2,        *)
(* resistance field / 10) recovers the inputs within 0.01 km/h, 0.5 rpm     *)
(* and 0.1.                                                                 *)
C22_IbdFrames(log) ==
    {i \in 1..Len(log) :
        log[i].call = "gatts_notify" /\ log[i].handle = "indoor_bike_data"}

C22_InRange(r) ==
    /\ r.speed >= 0 /\ r.speed <= 655350
    /\ r.cadence >= 0 /\ r.cadence <= 327675
    /\ r.load >= 0 /\ r.load <= 10000

\* fields decoded to thousandths of km/h, tenths of rpm, hundredths of a percent
C22_FrameRoundTrip ==
    C22_InRange(ibd_readings)
      => /\ C22_IbdFrames(bx) # {}
         /\ \A i \in C22_IbdFrames(bx) :
               /\ Abs(bx[i].data[2] * 10 - ibd_readings.speed) <= 10
               /\ Abs(bx[i].data[3] * 5 - ibd_readings.cadence) <= 5
               /\ Abs(bx[i].data[4] * 10 - ibd_readings.load) <= 10

\* the frame at the upper end of the three ranges
C22_Witness ==
    /\ ibd_readings = [speed |-> 655350, cadence |-> 327675, load |-> 10000]
    /\ \E i \in C22_IbdFrames(bx) :
          bx[i].data = <<IBD_FLAGS, 65535, 65535, 1000, 0>>

----------------------------------------------------------------------------
(* C23: a control-point write with op code 0x04 and at least 3 bytes sets   *)
(* target_resistance to int16_le(bytes[1:3]) / 10, passes that same percent *)
(* value to set_incline, leaves target_incline unchanged and answers        *)
(* SUCCESS.                                                                 *)
C23_Writes ==
    {value \in ControlPointWrites :
        Len(value) >= 3 /\ value[1] = CP_SET_TARGET_RESISTANCE}

\* the response of a finished dispatch of the write in cp_value
C23_AnswersSuccess ==
    (/\ frame["irq"].pc # "idle" /\ frame'["irq"].pc = "idle"
     /\ cp_value \in C23_Writes)
      => \E i \in 1..Len(tx') :
            /\ tx'[i].call = "gatts_write"
            /\ tx'[i].handle = "control_point"
            /\ tx'[i].data = <<CP_RESPONSE_CODE, CP_SET_TARGET_RESISTANCE,
                               RESULT_SUCCESS>>

\* as stated: the stored target is the raw field divided by 10
C23_TargetIsTenthOfField ==
    [][/\ \A value \in C23_Writes :
             HandleControlPoint(value)
               => /\ target_resistance' * 10 = Int16LE(value[2], value[3])
                  /\ incline_percent' = ClampIncline(target_resistance' * 100)
                  /\ target_incline' = target_incline
       /\ C23_AnswersSuccess
      ]_vars

\* the stored target is the raw field, in 0.1 units; the percent value
\* handed to set_incline is that field divided by 10
C23_TargetIsRawField ==
    [][/\ \A value \in C23_Writes :
             HandleControlPoint(value)
               => /\ target_resistance' = Int16LE(value[2], value[3])
                  /\ incline_percent' = ClampIncline(target_resistance' * 10)
                  /\ target_incline' = target_incline
       /\ C23_AnswersSuccess
      ]_vars

\* Set Target Resistance 30.0 answered, with an earlier target incline kept
C23_Witness ==
    /\ cp_value = <<4, 44, 1>>
    /\ frame["irq"].pc = "idle"
    /\ target_resistance = 300
    /\ incline_percent = 3000
    /\ target_incline = 500
    /\ \E i \in 1..Len(tx) :
          tx[i].data = <<CP_RESPONSE_CODE, CP_SET_TARGET_RESISTANCE, RESULT_SUCCESS>>

----------------------------------------------------------------------------
(* C24: a control-point write with op code 0x11 and at least 7 bytes stores *)
(* wind speed (int16), grade (int16), crr (u8) and cw (u8), sets            *)
(* target_incline to grade / 100, forwards grade / 100 to set_incline and   *)
(* answers SUCCESS; grade = 350 gives target_incline = 3.5.                 *)
C24_Writes ==
    {value \in ControlPointWrites :
        Len(value) >= 7 /\ value[1] = CP_SET_INDOOR_BIKE_SIM}

C24_SimulationStored ==
    [][/\ \A value \in C24_Writes :
             HandleControlPoint(value)
               => /\ sim' = [wind_speed |-> Int16LE(value[2], value[3]),
                             grade |-> Int16LE(value[4], value[5]),
                             crr |-> value[6],
                             cw |-> value[7]]
                  \* hundredths of a percent: grade / 100 percent
                  /\ target_incline' = sim'.grade
                  /\ incline_percent' = ClampIncline(sim'.grade)
                  /\ (sim'.grade = 350 => target_incline' = 350)
       /\ (/\ frame["irq"].pc # "idle" /\ frame'["irq"].pc = "idle"
           /\ cp_value \in C24_Writes)
            => \E i \in 1..Len(tx') :
                  /\ tx'[i].call = "gatts_write"
                  /\ tx'[i].handle = "control_point"
                  /\ tx'[i].data = <<CP_RESPONSE_CODE, CP_SET_INDOOR_BIKE_SIM,
                                     RESULT_SUCCESS>>
      ]_vars

\* the simulation write of test_ble.py, grade 3.5 %, answered
C24_Witness ==
    /\ cp_value = <<17, 0, 0, 94, 1, 33, 51>>
    /\ frame["irq"].pc = "idle"
    /\ sim = [wind_speed |-> 0, grade |-> 350, crr |-> 33, cw |-> 51]
    /\ target_incline = 350
    /\ incline_percent = 350
    /\ \E i \in 1..Len(tx) :
          tx[i].data = <<CP_RESPONSE_CODE, CP_SET_INDOOR_BIKE_SIM, RESULT_SUCCESS>>

----------------------------------------------------------------------------
(* C25: pairing mode exits on connect: after every central-connect event    *)
(* is_pairing_mode() is false, whether or not pairing mode had been started *)
(* and however much of the 120 s window remained.                           *)
C25_ConnectExitsPairing ==
    [][\A h \in ConnHandles : CentralConnect(h) => ~pairing_mode']_vars

\* a central is connected, pairing mode is off with part of its window left,
\* and the radio advertises under the normal name again
C25_Witness ==
    /\ connected
    /\ ~pairing_mode
    /\ pairing_mode_start_time > 0
    /\ now - pairing_mode_start_time < pairing_mode_duration_ms
    /\ advertising
    /\ advertised_name = "normal"

----------------------------------------------------------------------------
(* C26: with a motor sensor get_current_load_percent() returns              *)
(* 100 * |motor_crank_position| / 500 clamped to [0, 100]; positions +p and *)
(* -p give the same value, the call changes no state, and in every          *)
(* reachable state the value lies in [0, 100], so that the resistance field *)
(* of the telemetry frame lies in [0, 1000].                                *)
C26_Percent(pos) ==
    LET load == (100 * 100 * Abs(pos)) \div 500
    IN  IF load < 0 THEN 0 ELSE IF load > 10000 THEN 10000 ELSE load

C26_Value ==
    /\ CurrentLoadPercent(motor_crank_position) = C26_Percent(motor_crank_position)
    /\ CurrentLoadPercent(-motor_crank_position)
         = CurrentLoadPercent(motor_crank_position)
    /\ CurrentLoadPercent(motor_crank_position) \in 0..10000
    /\ ibd_readings # NoReadings
         => /\ ibd_readings.load = C26_Percent(motor_crank_position)
            /\ ibd_readings.load \in 0..10000
            /\ \A i \in 1..Len(bx) : bx[i].data[4] \in 0..1000

C26_LoadPercent ==
    /\ C26_Value
    /\ [][/\ C26_Value'
          \* the steps of update_indoor_bike_data(), which calls it
          /\ (bx' # bx \/ ibd_readings' # ibd_readings)
               => UNCHANGED <<sensorVars, pinVars, loadVars, current_gear, ctxVars>>
         ]_vars

\* a frame built at the reverse end of the travel reports the full load
C26_Witness ==
    /\ motor_crank_position = -max_load_position
    /\ ibd_readings # NoReadings
    /\ ibd_readings.load = 10000
    /\ \E i \in 1..Len(bx) : bx[i].data[4] = 1000

----------------------------------------------------------------------------
(* C27: every seek drives the motor toward its target: at the moment        *)
(* _move_motor_to_position sets the direction pins, Forward is selected if  *)
(* and only if the target is greater than the current motor_crank_position, *)
(* also when a control-point write, which itself calls set_incline and may  *)
(* run a complete seek, comes between _update_load reading the position and *)
(* the pins being set.                                                      *)
C27_SeekDrivesTowardTarget ==
    [][\A c \in Contexts :
          (frame[c].pc = "decide" /\ frame'[c].pc = "seek")
            => (PinsForward' <=> frame[c].target > motor_crank_position)
      ]_vars

----------------------------------------------------------------------------
(* C28: while startup_calibration is running no other code path changes the *)
(* motor direction pins: a control-point write or an apply_load() or        *)
(* set_incline() arriving during homing neither starts a seek nor stops the *)
(* motor, so the homing phases alone own the pins until homing returns.     *)
C28_HomingOwnsPins ==
    [][calibration = "running"
         => /\ frame["irq"].pc # "idle"
                 => UNCHANGED <<l298n_in1_pin, l298n_in2_pin>>
            /\ \A c \in Contexts :
                  ~(frame[c].pc = "decide" /\ frame'[c].pc = "seek")
      ]_vars

----------------------------------------------------------------------------
----------------------------------------------------------------------------
(* C30: in _update_load the signed seek target is +target_abs when the      *)
(* quantized total load is greater than the current load,                   *)
(* 100 * |position| / 500, and -target_abs otherwise, whatever the sign of  *)
(* the current position; a motion is issued only if                         *)
(* |target - position| > 5.                                                 *)
C30_SignedTarget ==
    [][\A c \in Contexts :
          /\ (frame[c].pc = "idle" /\ frame'[c].pc = "decide")
               => LET target_abs == (total_load' * 500) \div 100
                  IN  frame'[c].target =
                          IF total_load' * 500 > 100 * Abs(motor_crank_position)
                          THEN target_abs
                          ELSE -target_abs
          /\ (frame[c].pc = "decide" /\ frame'[c].pc = "seek")
               => Abs(frame[c].target - motor_crank_position) > 5
      ]_vars

\* a load decrease at a positive position: the seek runs to the negative
\* target
C30_Witness ==
    /\ frame["main"].pc = "seek"
    /\ frame["main"].target = -225
    /\ total_load = 45
    /\ motor_crank_position = 245

----------------------------------------------------------------------------
(* C31: for every successful state-changing command dispatched while        *)
(* connected (Reset, Set Target Inclination, Resistance, Power, Start or    *)
(* Resume, Stop or Pause, Set Indoor Bike Simulation) the machine-status    *)
(* notification of the command is sent before the control-point response    *)
(* indication of the same command, and both are sent before any output of   *)
(* the next write.                                                          *)
C31_Calls(log, call, handle) ==
    {i \in 1..Len(log) : log[i].call = call /\ log[i].handle = handle}

C31_StatusBeforeResponse ==
    [][\* a dispatch returns
       /\ (/\ frame'["irq"].pc = "idle"
           /\ tx' # tx \/ frame["irq"].pc # "idle"
           /\ connected
           /\ cp_value' # <<>>
           /\ StatusData(cp_value') # <<>>)
            => /\ C31_Calls(tx', "gatts_notify", "status") # {}
               /\ C31_Calls(tx', "gatts_indicate", "control_point") # {}
               /\ \A i \in C31_Calls(tx', "gatts_notify", "status") :
                     /\ tx'[i].data = StatusData(cp_value')
                     /\ \A j \in C31_Calls(tx', "gatts_indicate", "control_point") :
                           i < j
               \* the response that is indicated is the one of this command
               /\ \A k \in C31_Calls(tx', "gatts_write", "control_point") :
                     /\ tx'[k].data = <<CP_RESPONSE_CODE, cp_value'[1], RESULT_SUCCESS>>
                     /\ \A j \in C31_Calls(tx', "gatts_indicate", "control_point") :
                           k < j
       \* no write is taken up, and nothing is sent, while a dispatch is under way
       /\ frame["irq"].pc # "idle"
            => /\ cp_value' = cp_value
               /\ tx = <<>>
      ]_vars

\* a simulation write dispatched while connected, its seek run into the
\* timeout: the status was notified, then the response indicated
C31_Witness ==
    /\ connected
    /\ frame["irq"].pc = "idle"
    /\ cp_value = <<17, 0, 0, 94, 1, 33, 51>>
    /\ seek_note.outcome = "timeout"
    /\ Len(tx) = 4
    /\ tx[2] = [call |-> "gatts_notify", handle |-> "status",
                data |-> <<STATUS_INDOOR_BIKE_SIM_CHANGED, 0, 0, 94, 1, 33, 51>>]
    /\ tx[4] = [call |-> "gatts_indicate", handle |-> "control_point", data |-> <<>>]

----------------------------------------------------------------------------
(* C32: control_granted never affects dispatch: every supported command is  *)
(* executed and answered with SUCCESS whether or not Request Control (0x00) *)
(* was received on the current connection, and the result 0x05,             *)
(* CONTROL_NOT_PERMITTED, is produced in no reachable state.                *)
C32_Supported ==
    {value \in ControlPointWrites :
        /\ Len(value) >= 1
        /\ \/ value[1] \in {0, 1, 7, 8}
           \/ value[1] \in {3, 4, 5} /\ Len(value) >= 3
           \/ value[1] = 17 /\ Len(value) >= 7}

C32_Responses(log) ==
    {i \in 1..Len(log) : log[i].call = "gatts_write" /\ log[i].handle = "control_point"}

C32_ControlNeverChecked ==
    [][\* a dispatch returns: the supported command is answered SUCCESS
       /\ (/\ frame'["irq"].pc = "idle"
           /\ tx' # tx \/ frame["irq"].pc # "idle"
           /\ cp_value' \in C32_Supported)
            => /\ C32_Responses(tx') # {}
               /\ \A i \in C32_Responses(tx') :
                     tx'[i].data = <<CP_RESPONSE_CODE, cp_value'[1], RESULT_SUCCESS>>
       \* no response carries CONTROL_NOT_PERMITTED
       /\ \A i \in C32_Responses(tx') :
             tx'[i].data[3] # RESULT_CONTROL_NOT_PERMITTED
       \* the command is executed without control
       /\ (~control_granted /\ HandleControlPoint(<<5, 200, 0>>)) => target_power' = 200
       /\ (~control_granted /\ HandleControlPoint(<<3, 50, 0>>))
            => target_incline' = 500 /\ incline_percent' = 500
       /\ (~control_granted /\ HandleControlPoint(<<4, 44, 1>>))
            => target_resistance' = 300 /\ incline_percent' = 3000
       /\ (~control_granted /\ HandleControlPoint(<<17, 0, 0, 94, 1, 33, 51>>))
            => sim'.grade = 350 /\ incline_percent' = 350
       /\ (~control_granted /\ HandleControlPoint(<<1>>))
            => target_incline' = 0 /\ target_power' = 0 /\ target_resistance' = 0
      ]_vars

\* Set Target Power executed and answered SUCCESS on a connection that never
\* requested control
C32_Witness ==
    /\ connected
    /\ ~control_granted
    /\ cp_value = <<5, 200, 0>>
    /\ target_power = 200
    /\ \E i \in C32_Responses(tx) :
          tx[i].data = <<CP_RESPONSE_CODE, CP_SET_TARGET_POWER, RESULT_SUCCESS>>

----------------------------------------------------------------------------
(* C33: after every control-point dispatch completes, the load controller's *)
(* incline_percent equals the target_incline of the BLE controller clamped  *)
(* to [-100, 100], after any sequence of Reset, Set Target Inclination, Set *)
(* Target Resistance, Set Target Power and Set Indoor Bike Simulation       *)
(* writes.                                                                  *)
C33_InclineFollowsTarget ==
    [][(/\ frame'["irq"].pc = "idle"
        /\ cp_value' # cp_value \/ tx' # tx \/ frame["irq"].pc # "idle")
         => incline_percent' =
               (IF target_incline' < -10000 THEN -10000
                ELSE IF target_incline' > 10000 THEN 10000
                ELSE target_incline')
      ]_vars

----------------------------------------------------------------------------
(* C34: with base_load_factor = 1 and the gear ratio within [min_ratio,     *)
(* max_ratio] the quantized total load is never below 25, so no             *)
(* apply_load() seek ever targets a position with |target| < 125 ticks: the *)
(* home position 0 is never a seek target.                                  *)
C34_LoadAtLeastQuarter ==
    [][\A c \in Contexts :
          /\ (frame[c].pc = "idle" /\ frame'[c].pc = "decide")
               => /\ total_load' >= 25
                  /\ Abs(frame'[c].target) >= 125
          /\ frame'[c].pc = "seek"
               => Abs(frame'[c].target) >= 125 /\ frame'[c].target # 0
      ]_vars

\* the lowest load: first gear on the steepest decline, a seek to 125 started
C34_Witness ==
    /\ current_gear = 1
    /\ incline_percent = -10000
    /\ total_load = 25
    /\ frame["main"].pc = "seek"
    /\ frame["main"].target = 125

----------------------------------------------------------------------------
(* C35: with a constant wheel rpm > 0 and CSC broadcast ticks at any fixed  *)
(* interval while connected, wheel_revolutions after the ticks covering a   *)
(* total elapsed time T differs from rpm * T / 60 by less than one          *)
(* revolution: no revolutions are lost by truncating each tick's increment; *)
(* the same for crank_revolutions.                                          *)
C35_NoRevolutionLost ==
    LET T == last_update_time - csc_run.since
        wheel == wheel_revolutions - csc_run.wheel
        crank == crank_revolutions - csc_run.crank
    IN  (csc_run # NoRun /\ csc_run.dt > 0)
          => /\ csc_run.wheel_rpm > 0
                  => Abs(wheel * 60000 - csc_run.wheel_rpm * T) < 60000
             /\ csc_run.crank_rpm > 0
                  => Abs(crank * 60000 - csc_run.crank_rpm * T) < 60000

----------------------------------------------------------------------------
(* C36: each execution of the rotation-pulse ISR sets motor_crank_position  *)
(* to clamp(old + motor_direction, -500, +500) and adds motor_direction to  *)
(* motor_pulse_count: the position saturates at the bounds and is never     *)
(* wrapped to 0 by the rotation ISR in any reachable state.                 *)
C36_RotationIsrSaturates ==
    [][RotationPulse
         => LET p == motor_crank_position + motor_direction
            IN  /\ motor_crank_position' =
                      (IF p < -500 THEN -500 ELSE IF p > 500 THEN 500 ELSE p)
                /\ motor_pulse_count' = motor_pulse_count + motor_direction
                /\ motor_crank_position' = 0 => p = 0
      ]_vars

\* at the forward end of the travel with pulses counted since the last reset
\* of the counter
C36_Witness ==
    /\ motor_crank_position = 500
    /\ motor_direction = 1
    /\ motor_pulse_count = 1
    /\ motor_crank_pulse_count = 0

----------------------------------------------------------------------------
(* C37: the forward homing phase treats the home trigger as confirmed only  *)
(* after 10 consecutive polls read the home pin high; any low reading in    *)
(* between resets the count to 0, so a run of fewer than 10 high samples    *)
(* never ends the seek or stops the motor.                                  *)
C37_TenConsecutiveHighs ==
    [][frame["main"].pc = "cal_seek"
         => \* one poll: count a high sample, start over on a low one
            /\ (CalibrationSeekPoll /\ ~frame["main"].expired)
                 => debounce_count' =
                       (IF motor_stop_pin = 1 THEN debounce_count + 1 ELSE 0)
            \* nothing else counts
            /\ ~CalibrationSeekPoll => UNCHANGED debounce_count
            \* the seek ends with the tenth high sample in a row
            /\ frame'["main"].pc = "cal_found"
                 => /\ debounce_count = 9
                    /\ motor_stop_pin = 1
                    /\ debounce_count' = 10
            \* short of that the phase goes on, the motor running Forward,
            \* unless its timeout has run out
            /\ (frame'["main"].pc # "cal_found" /\ ~frame["main"].expired)
                 => /\ frame'["main"].pc = "cal_seek"
                    /\ UNCHANGED <<l298n_in1_pin, l298n_in2_pin>>
      ]_vars

\* nine high samples in a row, then the pin fell: the search goes on, the
\* motor running Forward
C37_Witness ==
    /\ frame["main"].pc = "cal_seek"
    /\ ~frame["main"].expired
    /\ debounce_count = 9
    /\ motor_stop_pin = 0
    /\ l298n_in1_pin = 1
    /\ l298n_in2_pin = 0

----------------------------------------------------------------------------
(* C38: from disable_stop_interrupt() until enable_stop_interrupt(), the    *)
(* whole of startup_calibration, rising edges on the home pin run no        *)
(* handler: neither motor_crank_pulse_count nor motor_crank_position is     *)
(* changed by the home trigger, while rotation pulses are still counted.    *)
C38_HomeIsrMasked ==
    [][/\ calibration = "running" => ~stop_irq_enabled
       /\ (~stop_irq_enabled /\ motor_stop_pin = 0 /\ motor_stop_pin' = 1)
            => UNCHANGED <<motor_crank_pulse_count, motor_crank_position,
                           motor_pulse_count, motor_direction>>
       /\ ~stop_irq_enabled => UNCHANGED motor_crank_pulse_count
       /\ (~stop_irq_enabled /\ ActuatorPulse)
            => motor_pulse_count' = motor_pulse_count + motor_direction
      ]_vars

\* the home pin rose during the forward search: the position and the home
\* counter are as the rotation pulses left them
C38_Witness ==
    /\ calibration = "running"
    /\ frame["main"].pc = "cal_seek"
    /\ ~stop_irq_enabled
    /\ ~initial_stop_state
    /\ motor_stop_pin = 1
    /\ motor_pulse_count > 0
    /\ motor_crank_position = motor_pulse_count
    /\ motor_crank_pulse_count = 0

----------------------------------------------------------------------------
(* C39: each execution of the home-trigger ISR increments                   *)
(* motor_crank_pulse_count by exactly 1 and sets motor_crank_position to 0  *)
(* whatever the current position and direction; it leaves motor_pulse_count *)
(* and motor_direction unchanged.                                           *)
C39_HomeIsrEffect ==
    [][(stop_irq_enabled /\ StopPinRises)
         => /\ motor_crank_pulse_count' = motor_crank_pulse_count + 1
            /\ motor_crank_position' = 0
            /\ UNCHANGED <<motor_pulse_count, motor_direction>>
      ]_vars

\* the home trigger fired two rotation pulses into a reverse run: the
\* position is back at 0, the rotation count and the direction are kept
C39_Witness ==
    /\ motor_stop_pin = 1
    /\ stop_irq_enabled
    /\ motor_crank_pulse_count = 1
    /\ motor_crank_position = 0
    /\ motor_pulse_count = -2
    /\ motor_direction = -1

----------------------------------------------------------------------------
(* C40: the speed field of every Indoor Bike Data frame is the rider's      *)
(* speed in km/h times 100, truncated to an integer, also when the speed    *)
(* provider is SpeedController.get_calculated_speed().                      *)
C40_SpeedFieldIsKmh ==
    [][\A wheel_rpm \in SpeedWheelRpms, crank_rpm \in CrankRpms :
          UpdateIndoorBikeDataFromController(wheel_rpm, crank_rpm)
            => \A i \in C22_IbdFrames(bx') :
                  bx'[i].data[2] = SpeedField(RpmToSpeedKmh(wheel_rpm, current_gear))
      ]_vars

====
